---- MODULE Spec2Model ----
(***************************************************************************)
(* Pool leases of svcutil (src/lease.go): replicas race for one member of  *)
(* a Range with compare-and-set transactions on an etcd-like store, keep   *)
(* the store lease alive, and a supervisor goroutine (Lease.worker)        *)
(* reattaches the keep-alive stream or reacquires the key after a loss.    *)
(*                                                                         *)
(* Named locks of a Service (src/unnamed/part_005): goroutines call        *)
(* AcquireLock and ReleaseLock, which keep a registry of mutex records     *)
(* under one lock, while Service.monitorSession replaces a session that    *)
(* died and closes the release signals of the records it finds.            *)
(*                                                                         *)
(* One step of the model is one store call of a goroutine together with    *)
(* the local code around it; the store is linearizable, so goroutines      *)
(* interleave at store calls and at channel operations.                    *)
(***************************************************************************)
EXTENDS Integers, Sequences, FiniteSets, TLC

\* ---- bounds of the model
NumReplicas == 2
NumMembers == 1
MaxKills == 1
NumCallers == 2
NumNames == 1
MaxSessions == 2
MaxRecords == 2

Replicas == 1..NumReplicas
\* the indices of r.Values of the Range every replica is constructed with; a member
\* is named by its index
Members == 1..NumMembers
\* lease grants the store answers to one replica
MaxGrants == MaxKills + 2
\* a lease id is opaque; the model names a lease by the replica it was granted to
\* and the number of that grant
LeaseIds == Replicas \X (1..MaxGrants)
NoLease == <<0, 0>>

\* goroutines that call AcquireLock and ReleaseLock of the one Service
Callers == 1..NumCallers
\* lock names; the key of a name is the name behind a fixed prefix
Names == 1..NumNames
\* the sessions the store grants to the Service, in order of creation; 0 is nil
SessionIds == 1..MaxSessions
NoSession == 0
\* no record in the registry under a key
NoRecord == 0

ErrNoAvailableIDs == "NoAvailableIDs"
ErrSessionNotAvailable == "SessionNotAvailable"
ErrMutexAlreadyAcquired == "MutexAlreadyAcquired"
ErrEtcdTimeout == "EtcdTimeout"
ErrStore == "StoreError"
ErrCanceled == "Canceled"

EventTypeLeaseExpired == "LeaseExpired"
EventTypeLeaseReacquired == "LeaseReacquired"
EventTypeLeaseIsTakenOver == "LeaseIsTakenOver"

VARIABLES
    leases,      \* store: the lease ids that are granted and neither expired nor revoked
    kv,          \* store: key -> lease the key is attached to (NoLease: key absent)
    grants,      \* store: number of leases granted to each replica so far
    committed,   \* history: <<key, lease>> of every transaction that succeeded
    revokes,     \* history: the lease ids Revoke was called with
    kills,       \* environment: leases expired or killed so far
    pc,          \* caller of Obtain / Wait / Close of each Lease object
    api,         \* which of Obtain / Wait the caller is in
    ids,         \* Obtain: shuffled members not tried yet
    granted,     \* Obtain: resp.ID of the pass
    result,      \* what Obtain / Wait returned
    value,       \* Lease.value
    lease,       \* Lease.lease
    leaseKey,    \* Lease.leaseKey
    closer,      \* Lease.closer # nil
    stopper,     \* Lease.stopper is closed
    breaker,     \* Lease.breaker holds a value (capacity 1)
    wpc,         \* position of the worker goroutine
    leaseAlive,  \* worker's local leaseAlive
    keepAlive,   \* worker's local keepAlive
    regranted,   \* reacquire: resp.ID of the attempt
    cons,        \* keepAliveWorker goroutines: <<[lease, open, cur]>> per replica
    events       \* the OnEvent calls of each pool-lease, in order

VARIABLES
    session,     \* Service.session (NoSession: nil)
    sessions,    \* store: the sessions whose lease is granted
    created,     \* store: number of sessions created for the Service so far
    locks,       \* store: <<name, session>> of every mutex key that exists
    mutexes,     \* Service.mutexes: name -> index of its record in recs, or NoRecord
    recs,        \* every muRecord created: [name, sess, closed (donec is closed)]
    svcStopper,  \* Service.stopper is closed
    cpc,         \* caller of Service.Close
    mpc,         \* position of the monitorSession goroutine
    ch,          \* monitorSession: the session whose Done channel ch is
    oldMutexes,  \* monitorSession: the records of the registry it took
    tpc,         \* position of each caller of AcquireLock / ReleaseLock
    tname,       \* AcquireLock / ReleaseLock: name
    tmu,         \* AcquireLock: session of mutex; ReleaseLock: record read first
    ret          \* the last return of AcquireLock / ReleaseLock

svcVars == <<session, sessions, created, locks, mutexes, recs, svcStopper, cpc, mpc,
             ch, oldMutexes, tpc, tname, tmu, ret>>

svcStoreVars == <<sessions, created, locks>>
monitorVars == <<mpc, ch, oldMutexes>>
lockCallVars == <<tpc, tname, tmu, ret>>

\* Range constructors (src/hostname.go); a string is a sequence of characters
VARIABLES
    rfn,         \* the function that is called ("none": no call)
    rin,         \* its argument
    rpc,         \* position of the call
    gi,          \* hyphen form: the loop counter i
    gend,        \* hyphen form: end
    gvals,       \* hyphen form: the slice appended to
    rout         \* what the constructor returned

rangeVars == <<rfn, rin, rpc, gi, gend, gvals, rout>>

\* Service.loadConfig (src/unnamed/part_005)
VARIABLES
    cfg,         \* the struct cfg points to: field -> value
    cstore,      \* store: field -> the value under path + tag of the field, or Missing
    cpend,       \* the tags the range loop has not visited
    cfpc,        \* position of the call
    cret         \* what loadConfig returned

configVars == <<cfg, cstore, cpend, cfpc, cret>>

\* what the pool keys of a replica are made of (Lease.keyPrefix)
VARIABLES
    rtype,       \* i.r.Type of the Range every replica is constructed with
    oshost       \* the host of each replica: what os.Hostname and GetLocalIP answer

hostVars == <<rtype, oshost>>

utilVars == <<rangeVars, configVars, hostVars>>

vars == <<leases, kv, grants, committed, revokes, kills, pc, api, ids, granted, result,
          value, lease, leaseKey, closer, stopper, breaker, wpc, leaseAlive,
          keepAlive, regranted, cons, events, svcVars, utilVars>>

storeVars == <<leases, kv, grants, committed, revokes, kills>>
callerVars == <<pc, api, ids, granted, result>>
fieldVars == <<value, lease, leaseKey, closer>>
workerVars == <<wpc, leaseAlive, keepAlive, regranted>>
leaseVars == <<storeVars, callerVars, fieldVars, stopper, breaker, workerVars, cons,
               events>>

\* ---- helpers

RECURSIVE Perms(_)
\* rand.Shuffle of a copy of r.Values: any order of the members
Perms(S) ==
    IF S = {} THEN {<<>>}
    ELSE UNION {{<<x>> \o p : p \in Perms(S \ {x})} : x \in S}

RemoveAt(s, i) == [j \in 1..(Len(s) - 1) |-> IF j < i THEN s[j] ELSE s[j + 1]]

\* a keepAliveWorker goroutine draining the channel KeepAlive returned for l;
\* cur: Lease.closer is the cancel function of this stream; by: the function whose
\* go statement started the goroutine
NewConsumer(l, by) == [lease |-> l, open |-> TRUE, cur |-> TRUE, by |-> by]

\* i.closer = cancel: the field no longer refers to an older stream
Spawn(cs, l, by) ==
    [i \in DOMAIN cs |-> [cs[i] EXCEPT !.cur = FALSE]] \o <<NewConsumer(l, by)>>

\* i.closer(): the context of the current stream is cancelled, its channel closes
CallCloser(cs) ==
    [i \in DOMAIN cs |-> IF cs[i].cur THEN [cs[i] EXCEPT !.open = FALSE, !.cur = FALSE]
                         ELSE cs[i]]

\* mutant: the transaction puts the key without comparing its create revision
TxnOutcomeNoCompare(key, l) == IF l \notin leases THEN "err" ELSE "ok"

\* the store's answer to Txn.If(CreateRevision(key) = 0).Then(OpPut(key, "locked", WithLease(l))):
\* "taken" (Succeeded = false), "err" (the lease is unknown to the store), "ok"
TxnOutcome(key, l) ==
    IF kv[key] # NoLease THEN "taken"
    ELSE IF l \notin leases THEN "err"
    ELSE "ok"

\* what Obtain and Wait return: (id, nil) or ("", err)
Returned(id, err) == [id |-> id, err |-> err]
NoResult == Returned(0, "pending")

\* what a call of AcquireLock (the donec of record rec, or an error) or of
\* ReleaseLock (on record rec) returned to caller t
LockResult(t, op, err, rec) == [by |-> t, op |-> op, err |-> err, rec |-> rec]

\* resp.ID of the next lease.Grant of replica r
NewLeaseID(r) == <<r, grants[r] + 1>>

\* the store drops a lease (expiry or revoke) and deletes the keys attached to it
DropLease(l) ==
    /\ leases' = leases \ {l}
    /\ kv' = [k \in DOMAIN kv |-> IF kv[k] = l THEN NoLease ELSE kv[k]]

Emit(r, kind) == events' = [events EXCEPT ![r] = Append(@, <<kind, value[r]>>)]

\* NewService: the registry is empty, the first session is created and the monitor
\* started
NewService ==
    /\ session = 1
    /\ sessions = {1}
    /\ created = 1
    /\ locks = {}
    /\ mutexes = [n \in Names |-> NoRecord]
    /\ recs = <<>>
    /\ svcStopper = FALSE
    /\ cpc = "open"
    /\ mpc = "select"
    /\ ch = 1
    /\ oldMutexes = {}
    /\ tpc = [t \in Callers |-> "idle"]
    /\ tname = [t \in Callers |-> 0]
    /\ tmu = [t \in Callers |-> 0]
    /\ ret = LockResult(0, "none", "none", NoRecord)

\* ---- Range (src/hostname.go): strings, strconv and the two integer types

ErrInvalidRange == "InvalidRange"
ErrEmptyRange == "EmptyRange"
ErrIPV6RangeNotSupported == "IPv6RangeNotSupported"

DecDigits == <<"0", "1", "2", "3", "4", "5", "6", "7", "8", "9">>
HexLetters == {"a", "b", "c", "d", "e", "f", "A", "B", "C", "D", "E", "F"}
IsDigit(c) == \E d \in 1..10 : DecDigits[d] = c
DigitVal(c) == (CHOOSE d \in 1..10 : DecDigits[d] = c) - 1

\* strings.TrimSpace
RECURSIVE TrimLeft(_)
TrimLeft(s) == IF s # <<>> /\ Head(s) = " " THEN TrimLeft(Tail(s)) ELSE s

RECURSIVE TrimRight(_)
TrimRight(s) ==
    IF s # <<>> /\ s[Len(s)] = " " THEN TrimRight(SubSeq(s, 1, Len(s) - 1)) ELSE s

TrimSpace(s) == TrimRight(TrimLeft(s))

\* strings.Contains(s, sub), sub not empty
Contains(s, sub) ==
    \E i \in 1..(Len(s) - Len(sub) + 1) : SubSeq(s, i, i + Len(sub) - 1) = sub

\* strings.Count(s, sub): occurrences that do not overlap
RECURSIVE Count(_, _)
Count(s, sub) ==
    IF Len(s) < Len(sub) THEN 0
    ELSE IF SubSeq(s, 1, Len(sub)) = sub
         THEN 1 + Count(SubSeq(s, Len(sub) + 1, Len(s)), sub)
         ELSE Count(Tail(s), sub)

\* strings.Split(s, sep), sep one character: one part more than separators
RECURSIVE Split(_, _)
Split(s, sep) ==
    IF \A i \in 1..Len(s) : s[i] # sep
    THEN <<s>>
    ELSE LET i == CHOOSE k \in 1..Len(s) : s[k] = sep /\ \A j \in 1..(k - 1) : s[j] # sep
         IN <<SubSeq(s, 1, i - 1)>> \o Split(SubSeq(s, i + 1, Len(s)), sep)

\* an int (64 bits): the sign and the decimal digits of the magnitude, no leading
\* zeros
Int64(neg, mag) == [neg |-> neg, mag |-> mag]
Zero64 == Int64(FALSE, <<0>>)
MaxInt64 == <<9, 2, 2, 3, 3, 7, 2, 0, 3, 6, 8, 5, 4, 7, 7, 5, 8, 0, 7>>
MinInt64 == <<9, 2, 2, 3, 3, 7, 2, 0, 3, 6, 8, 5, 4, 7, 7, 5, 8, 0, 8>>

RECURSIVE StripZeros(_)
StripZeros(m) == IF Len(m) > 1 /\ Head(m) = 0 THEN StripZeros(Tail(m)) ELSE m

MagLess(a, b) ==
    \/ Len(a) < Len(b)
    \/ /\ Len(a) = Len(b)
       /\ \E i \in 1..Len(a) : a[i] < b[i] /\ \A j \in 1..(i - 1) : a[j] = b[j]

RECURSIVE MagInc(_)
MagInc(m) ==
    IF m = <<>> THEN <<1>>
    ELSE IF m[Len(m)] < 9 THEN [m EXCEPT ![Len(m)] = @ + 1]
         ELSE MagInc(SubSeq(m, 1, Len(m) - 1)) \o <<0>>

RECURSIVE MagDec(_)
MagDec(m) ==
    IF m[Len(m)] > 0 THEN StripZeros([m EXCEPT ![Len(m)] = @ - 1])
    ELSE StripZeros(MagDec(SubSeq(m, 1, Len(m) - 1)) \o <<9>>)

\* a < b and a <= b of int
IntLess(a, b) ==
    CASE a.neg /\ ~b.neg -> TRUE
      [] ~a.neg /\ b.neg -> FALSE
      [] ~a.neg /\ ~b.neg -> MagLess(a.mag, b.mag)
      [] OTHER -> MagLess(b.mag, a.mag)

IntLe(a, b) == a = b \/ IntLess(a, b)

\* i++ of int: the successor, and the least int after the greatest
IntInc(a) ==
    CASE ~a.neg /\ a.mag = MaxInt64 -> Int64(TRUE, MinInt64)
      [] ~a.neg -> Int64(FALSE, MagInc(a.mag))
      [] a.mag = <<1>> -> Zero64
      [] OTHER -> Int64(TRUE, MagDec(a.mag))

\* strconv.Atoi: an optional sign and decimal digits, within the range of int
Atoi(s) ==
    LET signed == s # <<>> /\ Head(s) \in {"+", "-"}
        body == IF signed THEN Tail(s) ELSE s
        neg == signed /\ Head(s) = "-"
    IN IF body = <<>> \/ \E i \in 1..Len(body) : ~IsDigit(body[i])
       THEN [ok |-> FALSE, val |-> Zero64]
       ELSE LET mag == StripZeros([i \in 1..Len(body) |-> DigitVal(body[i])])
            IN IF MagLess(IF neg THEN MinInt64 ELSE MaxInt64, mag)
               THEN [ok |-> FALSE, val |-> Zero64]
               ELSE [ok |-> TRUE, val |-> Int64(neg /\ mag # <<0>>, mag)]

\* strconv.Itoa
Itoa(a) ==
    (IF a.neg THEN <<"-">> ELSE <<>>) \o [i \in 1..Len(a.mag) |-> DecDigits[a.mag[i] + 1]]

\* the value of a magnitude that fits the model's integers
RECURSIVE MagVal(_)
MagVal(m) == IF m = <<>> THEN 0 ELSE 10 * MagVal(SubSeq(m, 1, Len(m) - 1)) + m[Len(m)]

\* what ParseIDRange and ParseIPRange do before their loop: an error, a result, or
\* the bounds of the loop
RangeFails(err) == [kind |-> "err", err |-> err, start |-> 0, end |-> 0, vals |-> <<>>]
RangeLoops(start, end) ==
    [kind |-> "loop", err |-> "nil", start |-> start, end |-> end, vals |-> <<>>]
RangeYields(vals) ==
    IF vals = <<>> THEN RangeFails(ErrEmptyRange)
    ELSE [kind |-> "ret", err |-> "nil", start |-> 0, end |-> 0, vals |-> vals]

\* the comma form of ParseIDRange: empty parts are skipped
RECURSIVE IDList(_)
IDList(parts) ==
    IF parts = <<>> THEN [ok |-> TRUE, vals |-> <<>>]
    ELSE LET part == TrimSpace(Head(parts))
             num == Atoi(part)
             rest == IDList(Tail(parts))
         IN CASE part = <<>> -> rest
              [] ~num.ok -> [ok |-> FALSE, vals |-> <<>>]
              [] ~rest.ok -> rest
              [] OTHER -> [ok |-> TRUE, vals |-> <<num.val>> \o rest.vals]

ParseIDRange(input) ==
    LET s == TrimSpace(input) IN
      IF s = <<>> THEN RangeFails(ErrInvalidRange)
      ELSE IF Contains(s, <<"-">>)
      THEN LET parts == Split(s, "-") IN
             IF Len(parts) # 2 THEN RangeFails(ErrInvalidRange)
             ELSE LET start == Atoi(TrimSpace(parts[1]))
                      end == Atoi(TrimSpace(parts[2]))
                  IN IF ~start.ok \/ ~end.ok THEN RangeFails(ErrInvalidRange)
                     ELSE IF IntLess(end.val, start.val) THEN RangeFails(ErrInvalidRange)
                     ELSE RangeLoops(start.val, end.val)
      ELSE LET list == IDList(Split(s, ",")) IN
             IF ~list.ok THEN RangeFails(ErrInvalidRange) ELSE RangeYields(list.vals)

isIPv4(ip) ==
    LET parts == Split(ip, ".") IN
      /\ Len(parts) = 4
      /\ \A i \in 1..4 :
           LET num == Atoi(parts[i]) IN
             /\ num.ok
             /\ ~num.val.neg
             /\ ~MagLess(<<2, 5, 5>>, num.val.mag)
             /\ ~(Head(parts[i]) = "0" /\ Len(parts[i]) > 1)

\* strconv.ParseUint(part, 16, 16) of a part of one to four characters
IsHex16(part) ==
    /\ part # <<>>
    /\ \A i \in 1..Len(part) : IsDigit(part[i]) \/ part[i] \in HexLetters

isIPv6(ip) ==
    LET parts == Split(ip, ":")
        doubleColonCount == Count(ip, <<":", ":">>)
    IN /\ Contains(ip, <<":">>)
       /\ ~Contains(ip, <<":", ":", ":">>)
       /\ Len(parts) <= 8
       /\ doubleColonCount <= 1
       /\ IF doubleColonCount = 1 THEN Len(parts) <= 7 ELSE Len(parts) = 8
       /\ \A i \in 1..Len(parts) :
            parts[i] = <<>> \/ (Len(parts[i]) <= 4 /\ IsHex16(parts[i]))

isValidIP(ip) == isIPv4(ip) \/ isIPv6(ip)

\* a uint32: its four octets, the most significant first
Zero32 == <<0, 0, 0, 0>>

\* (result << 8) | uint32(num), num an octet
Shl8Or(x, num) == <<x[2], x[3], x[4], num>>

ipv4ToInt(ip) ==
    LET parts == Split(ip, ".")
        num(i) == MagVal(Atoi(parts[i]).val.mag)
    IN Shl8Or(Shl8Or(Shl8Or(Shl8Or(Zero32, num(1)), num(2)), num(3)), num(4))

\* fmt.Sprintf("%d", n) of an octet
RECURSIVE FormatD(_)
FormatD(n) ==
    IF n < 10 THEN <<DecDigits[n + 1]>>
    ELSE FormatD(n \div 10) \o <<DecDigits[(n % 10) + 1]>>

\* mutant: the octets are written with the least significant first
intToIPv4Reversed(ip) ==
    FormatD(ip[4]) \o <<".">> \o FormatD(ip[3]) \o <<".">> \o FormatD(ip[2])
        \o <<".">> \o FormatD(ip[1])

intToIPv4(ip) ==
    FormatD(ip[1]) \o <<".">> \o FormatD(ip[2]) \o <<".">> \o FormatD(ip[3])
        \o <<".">> \o FormatD(ip[4])

\* i <= end and i++ of uint32: the successor modulo 2^32
Le32(x, y) ==
    x = y \/ \E i \in 1..4 : x[i] < y[i] /\ \A j \in 1..(i - 1) : x[j] = y[j]

Inc32(x) ==
    CASE x[4] < 255 -> <<x[1], x[2], x[3], x[4] + 1>>
      [] x[3] < 255 -> <<x[1], x[2], x[3] + 1, 0>>
      [] x[2] < 255 -> <<x[1], x[2] + 1, 0, 0>>
      [] OTHER -> <<(x[1] + 1) % 256, 0, 0, 0>>

\* the comma form of ParseIPRange
RECURSIVE IPList(_)
IPList(parts) ==
    IF parts = <<>> THEN [ok |-> TRUE, vals |-> <<>>]
    ELSE LET ip == TrimSpace(Head(parts))
             rest == IPList(Tail(parts))
         IN CASE ip = <<>> -> rest
              [] ~isValidIP(ip) -> [ok |-> FALSE, vals |-> <<>>]
              [] ~rest.ok -> rest
              [] OTHER -> [ok |-> TRUE, vals |-> <<ip>> \o rest.vals]

\* ParseIPRange up to the loop of generateIPRange
ParseIPRange(input) ==
    LET s == TrimSpace(input) IN
      IF s = <<>> THEN RangeFails(ErrInvalidRange)
      ELSE IF Contains(s, <<"-">>)
      THEN LET parts == Split(s, "-") IN
             IF Len(parts) # 2 THEN RangeFails(ErrInvalidRange)
             ELSE LET startIP == TrimSpace(parts[1])
                      endIP == TrimSpace(parts[2])
                  IN IF ~isValidIP(startIP) \/ ~isValidIP(endIP)
                     THEN RangeFails(ErrInvalidRange)
                     ELSE IF isIPv6(startIP) \/ isIPv6(endIP)
                     THEN RangeFails(ErrIPV6RangeNotSupported)
                     ELSE IF ~Le32(ipv4ToInt(startIP), ipv4ToInt(endIP))
                     THEN RangeFails(ErrInvalidRange)
                     ELSE RangeLoops(ipv4ToInt(startIP), ipv4ToInt(endIP))
      ELSE LET list == IPList(Split(s, ",")) IN
             IF ~list.ok THEN RangeFails(ErrInvalidRange) ELSE RangeYields(list.vals)

\* what a constructor returns: nil, or a Range with its Values
NilRange(err) == [err |-> err, isNil |-> TRUE, values |-> <<>>]
NewRange(values) == [err |-> "nil", isNil |-> FALSE, values |-> values]
NoRange == NilRange("none")

\* ---- Range: the arguments the constructors are called with

MaxLen == 3
MaxSpan == 24
IPStep == 3

IDChars == {"0", "1", "2", "-", ",", " ", "a"}
Strings(chars, n) == UNION {[1..k -> chars] : k \in 0..n}

\* longer arguments: the greatest int as both bounds, whitespace, the mixed form
MaxInt64Str == Itoa(Int64(FALSE, MaxInt64))
IDExtra ==
    {MaxInt64Str \o <<"-">> \o MaxInt64Str,
     <<" ", "1", " ", ",", " ", "2", " ">>,
     <<"1", ",", "2", "-", "1", ",", "0">>,
     <<"1", "0", "-", "1", "2">>,
     <<"-", "1", "-", "1">>}

IDInputs == Strings(IDChars, MaxLen) \cup IDExtra

RECURSIVE Add32(_, _)
Add32(x, k) == IF k = 0 THEN x ELSE Add32(Inc32(x), k - 1)

IPBases ==
    {Zero32, <<192, 168, 1, 254>>, <<10, 0, 255, 255>>, <<255, 255, 255, 254>>,
     <<255, 255, 255, 255>>}

\* start and end of the hyphen form, a few addresses apart
IPPairs ==
    {<<a, Add32(a, k)>> : a \in IPBases, k \in 0..IPStep}
        \cup {<<Add32(a, 1), a>> : a \in IPBases \ {<<255, 255, 255, 255>>}}

\* IPv6 addresses (compressed, loopback, seven groups and a trailing "::"), and
\* strings that are no address: too few groups, an octet of 256, a leading zero
V6Compressed == <<"2", "0", "0", "1", ":", "d", "b", "8", ":", ":", "1">>
V6Loopback == <<":", ":", "1">>
V6Trailing ==
    <<"1", ":", "2", ":", "3", ":", "4", ":", "5", ":", "6", ":", "7", ":", ":">>
V6TwoGroups == <<"1", ":", "2">>
V4Octet256 == <<"1", ".", "1", ".", "1", ".", "2", "5", "6">>
V4LeadingZero == <<"0", "1", ".", "1", ".", "1", ".", "1">>

IPOthers ==
    {V6Compressed, V6Loopback, V6Trailing, V6TwoGroups, V4Octet256, V4LeadingZero}

IPAtoms == {intToIPv4(a) : a \in IPBases} \cup IPOthers

IPInputs ==
    {intToIPv4(p[1]) \o <<"-">> \o intToIPv4(p[2]) : p \in IPPairs}
        \cup {p[1] \o <<"-">> \o p[2] :
                p \in (IPOthers \X IPAtoms) \cup (IPAtoms \X IPOthers)}
        \cup {p[1] \o <<",">> \o p[2] : p \in IPAtoms \X IPAtoms}
        \cup {<<" ">> \o a \o <<" ", ",", " ">> \o a \o <<",">> : a \in IPAtoms}
        \cup IPAtoms
        \cup {<<>>, <<",">>}

\* ---- Range: NewIDRange and NewIPRange

NoRangeCall ==
    /\ rfn = "none"
    /\ rin = <<>>
    /\ rpc = "idle"
    /\ gi = 0
    /\ gend = 0
    /\ gvals = <<>>
    /\ rout = NoRange

\* a constructor is called with an argument
RangeCall ==
    /\ \/ rfn = "NewIDRange" /\ rin \in IDInputs
       \/ rfn = "NewIPRange" /\ rin \in IPInputs
    /\ rpc = "call"
    /\ gi = 0
    /\ gend = 0
    /\ gvals = <<>>
    /\ rout = NoRange

\* the call up to the loop of the hyphen form, or to its return
RangeEnters(p, values) ==
    /\ CASE p.kind = "err" ->
              /\ rout' = NilRange(p.err)
              /\ rpc' = "done"
              /\ UNCHANGED <<gi, gend>>
         [] p.kind = "ret" ->
              /\ rout' = NewRange(values)
              /\ rpc' = "done"
              /\ UNCHANGED <<gi, gend>>
         [] OTHER ->
              /\ gi' = p.start
              /\ gend' = p.end
              /\ rpc' = "loop"
              /\ UNCHANGED rout
    /\ UNCHANGED <<rfn, rin, gvals>>

\* NewIDRange(value): ParseIDRange, and strconv.Itoa of every id
NewIDRange ==
    /\ rfn = "NewIDRange"
    /\ rpc = "call"
    /\ LET p == ParseIDRange(rin) IN
         RangeEnters(p, [i \in 1..Len(p.vals) |-> Itoa(p.vals[i])])
    /\ UNCHANGED <<leaseVars, svcVars, configVars, hostVars>>

\* for i := start; i <= end; i++ { result = append(result, i) }
ParseIDRangeLoop ==
    /\ rfn = "NewIDRange"
    /\ rpc = "loop"
    /\ IntLe(gi, gend)
    /\ Len(gvals) < MaxSpan
    /\ gvals' = Append(gvals, gi)
    /\ gi' = IntInc(gi)
    /\ UNCHANGED <<rfn, rin, rpc, gend, rout>>
    /\ UNCHANGED <<leaseVars, svcVars, configVars, hostVars>>

\* the loop is left: ParseIDRange returns and NewIDRange makes the Range
ParseIDRangeReturns ==
    /\ rfn = "NewIDRange"
    /\ rpc = "loop"
    /\ ~IntLe(gi, gend)
    /\ rout' = IF gvals = <<>> THEN NilRange(ErrEmptyRange)
               ELSE NewRange([i \in 1..Len(gvals) |-> Itoa(gvals[i])])
    /\ rpc' = "done"
    /\ UNCHANGED <<rfn, rin, gi, gend, gvals>>
    /\ UNCHANGED <<leaseVars, svcVars, configVars, hostVars>>

\* NewIPRange(value): ParseIPRange
NewIPRange ==
    /\ rfn = "NewIPRange"
    /\ rpc = "call"
    /\ LET p == ParseIPRange(rin) IN RangeEnters(p, p.vals)
    /\ UNCHANGED <<leaseVars, svcVars, configVars, hostVars>>

\* for i := start; i <= end; i++ { ips = append(ips, intToIPv4(i)) }
generateIPRange ==
    /\ rfn = "NewIPRange"
    /\ rpc = "loop"
    /\ Le32(gi, gend)
    /\ Len(gvals) < MaxSpan
    /\ gvals' = Append(gvals, intToIPv4(gi))
    /\ gi' = Inc32(gi)
    /\ UNCHANGED <<rfn, rin, rpc, gend, rout>>
    /\ UNCHANGED <<leaseVars, svcVars, configVars, hostVars>>

\* the loop is left: generateIPRange and ParseIPRange return
generateIPRangeReturns ==
    /\ rfn = "NewIPRange"
    /\ rpc = "loop"
    /\ ~Le32(gi, gend)
    /\ rout' = IF gvals = <<>> THEN NilRange(ErrEmptyRange) ELSE NewRange(gvals)
    /\ rpc' = "done"
    /\ UNCHANGED <<rfn, rin, gi, gend, gvals>>
    /\ UNCHANGED <<leaseVars, svcVars, configVars, hostVars>>

RangeNext ==
    \/ NewIDRange
    \/ ParseIDRangeLoop
    \/ ParseIDRangeReturns
    \/ NewIPRange
    \/ generateIPRange
    \/ generateIPRangeReturns

\* ---- ipv4ToInt and intToIPv4 on one address, as generateIPRange uses them

\* the octets addresses are written with: the least and the greatest, one to
\* three digits, and forms that are no octet or not the usual way to write one
OctetStrs ==
    {<<"0">>, <<"1">>, <<"9">>, <<"1", "0">>, <<"9", "9">>, <<"1", "0", "0">>,
     <<"2", "5", "5">>}
OddOctetStrs == {<<"+", "1">>, <<"-", "0">>, <<"0", "1">>, <<"2", "5", "6">>}

Dotted(a, b, c, d) == a \o <<".">> \o b \o <<".">> \o c \o <<".">> \o d

QuadInputs ==
    {Dotted(a, b, c, d) : a, b, c, d \in OctetStrs}
        \cup {Dotted(a, b, b, b) : a \in OddOctetStrs, b \in OctetStrs}
        \cup {Dotted(b, b, b, a) : a \in OddOctetStrs, b \in OctetStrs}

\* an address is about to be converted
ConvertCall ==
    /\ rfn = "ipv4ToInt"
    /\ rin \in QuadInputs
    /\ rpc = "call"
    /\ gi = 0
    /\ gend = 0
    /\ gvals = <<>>
    /\ rout = NoRange

\* isValidIP of ParseIPRange refuses the string: ErrInvalidRange
ConvertRefused ==
    /\ rfn = "ipv4ToInt"
    /\ rpc = "call"
    /\ ~isValidIP(rin)
    /\ rout' = NilRange(ErrInvalidRange)
    /\ rpc' = "done"
    /\ UNCHANGED <<rfn, rin, gi, gend, gvals>>
    /\ UNCHANGED <<leaseVars, svcVars, configVars, hostVars>>

\* start := ipv4ToInt(startIP)
ConvertToInt ==
    /\ rfn = "ipv4ToInt"
    /\ rpc = "call"
    /\ isValidIP(rin)
    /\ gi' = ipv4ToInt(rin)
    /\ rpc' = "int"
    /\ UNCHANGED <<rfn, rin, gend, gvals, rout>>
    /\ UNCHANGED <<leaseVars, svcVars, configVars, hostVars>>

\* ips = append(ips, intToIPv4(i))
ConvertToIPv4 ==
    /\ rfn = "ipv4ToInt"
    /\ rpc = "int"
    /\ gvals' = <<intToIPv4(gi)>>
    /\ rout' = NewRange(<<intToIPv4(gi)>>)
    /\ rpc' = "done"
    /\ UNCHANGED <<rfn, rin, gi, gend>>
    /\ UNCHANGED <<leaseVars, svcVars, configVars, hostVars>>

ConvertNext ==
    \/ ConvertRefused
    \/ ConvertToInt
    \/ ConvertToIPv4

\* ---- Service.loadConfig (src/unnamed/part_005): a struct of four tagged fields

\* the fields of the struct cfg points to, all exported and tagged, and their kinds
CfgFields == {"Name", "Age", "On", "Rate"}
FieldKind(f) ==
    CASE f = "Name" -> "String"
      [] f = "Age" -> "Int"
      [] f = "On" -> "Bool"
      [] OTHER -> "Float64"

\* the struct before the call
CfgDefaults ==
    [f \in CfgFields |->
        CASE f = "Name" -> <<"x">>
          [] f = "Age" -> Int64(FALSE, <<5>>)
          [] f = "On" -> FALSE
          [] OTHER -> <<"0", ".", "5">>]

\* what the store has under the key of a field
Missing == [found |-> FALSE, value |-> <<>>]
Stored(str) == [found |-> TRUE, value |-> str]
CfgValues ==
    {<<"1", "2">>, <<"a", "b", "c">>, <<"n", "u", "l", "l">>, <<"t", "r", "u", "e">>}

\* json.Unmarshal of the value into intVal, intVal an int64 that is zero: a JSON
\* integer is stored, null is accepted and stores nothing, everything else (a
\* number with a fraction, another JSON value, no JSON at all) is an error
UnmarshalInt64(str) ==
    LET s == TrimSpace(str)
        digits == IF s # <<>> /\ Head(s) = "-" THEN Tail(s) ELSE s
        num == Atoi(s)
    IN CASE s = <<"n", "u", "l", "l">> -> [ok |-> TRUE, val |-> Zero64]
         [] /\ digits # <<>>
            /\ \A i \in 1..Len(digits) : IsDigit(digits[i])
            /\ (Head(digits) = "0" => Len(digits) = 1)
            /\ num.ok -> num
         [] OTHER -> [ok |-> FALSE, val |-> Zero64]

\* strconv.ParseBool
ParseBool(str) ==
    CASE str \in {<<"1">>, <<"t">>, <<"T">>, <<"T", "R", "U", "E">>,
                    <<"t", "r", "u", "e">>, <<"T", "r", "u", "e">>} ->
              [ok |-> TRUE, val |-> TRUE]
      [] str \in {<<"0">>, <<"f">>, <<"F">>, <<"F", "A", "L", "S", "E">>,
                    <<"f", "a", "l", "s", "e">>, <<"F", "a", "l", "s", "e">>} ->
              [ok |-> TRUE, val |-> FALSE]
      [] OTHER -> [ok |-> FALSE, val |-> FALSE]

\* the switch on field.Kind(): the field after the value was found
SetField(f, old, str) ==
    CASE FieldKind(f) = "String" -> str
      [] FieldKind(f) = "Int" ->
           IF UnmarshalInt64(str).ok THEN UnmarshalInt64(str).val ELSE old
      [] FieldKind(f) = "Bool" ->
           IF ParseBool(str).ok THEN ParseBool(str).val ELSE old
      [] OTHER -> old

NoConfigCall ==
    /\ cfg = CfgDefaults
    /\ cstore = [f \in CfgFields |-> Missing]
    /\ cpend = {}
    /\ cfpc = "idle"
    /\ cret = "none"

\* loadConfig is called with a pointer to the struct, over a store that has a
\* value or none under every key
ConfigCall ==
    /\ cfg = CfgDefaults
    /\ cstore \in [CfgFields -> {Missing} \cup {Stored(v) : v \in CfgValues}]
    /\ cpend = {}
    /\ cfpc = "call"
    /\ cret = "none"

\* the checks of the pointer pass and the tags are collected
loadConfig ==
    /\ cfpc = "call"
    /\ cpend' = CfgFields
    /\ cfpc' = "range"
    /\ UNCHANGED <<cfg, cstore, cret>>
    /\ UNCHANGED <<leaseVars, svcVars, rangeVars, hostVars>>

\* one round of the range over the tags (in the order of the map): Get answers
loadConfigField ==
    /\ cfpc = "range"
    /\ \E f \in cpend :
         /\ cfg' = IF cstore[f].found
                   THEN [cfg EXCEPT ![f] = SetField(f, @, cstore[f].value)]
                   ELSE cfg
         /\ cpend' = cpend \ {f}
    /\ UNCHANGED <<cstore, cfpc, cret>>
    /\ UNCHANGED <<leaseVars, svcVars, rangeVars, hostVars>>

\* Get fails in a round: loadConfig returns the error
loadConfigGetError ==
    /\ cfpc = "range"
    /\ cpend # {}
    /\ cret' = ErrStore
    /\ cfpc' = "done"
    /\ UNCHANGED <<cfg, cstore, cpend>>
    /\ UNCHANGED <<leaseVars, svcVars, rangeVars, hostVars>>

\* the range is over: return nil
loadConfigReturns ==
    /\ cfpc = "range"
    /\ cpend = {}
    /\ cret' = "nil"
    /\ cfpc' = "done"
    /\ UNCHANGED <<cfg, cstore, cpend>>
    /\ UNCHANGED <<leaseVars, svcVars, rangeVars, hostVars>>

ConfigNext ==
    \/ loadConfig
    \/ loadConfigField
    \/ loadConfigGetError
    \/ loadConfigReturns

\* ---- pool keys (src/lease.go keyPrefix, src/hostname.go Hostname)

RangeTypeID == "ID"
RangeTypeIP == "IP"

\* NewOptions, and the name of the one service
locksPrefix == <<"/", "l", "o", "c", "k", "/">>
hostsPrefix == <<"/", "h", "o", "s", "t", "/">>
idsPrefix == <<"/", "i", "d", "/">>
serviceName == <<"s", "v", "c">>

\* a host: os.Hostname answers name, or fails and GetLocalIP answers ip
NamedHost(name) == [err |-> FALSE, name |-> name, ip |-> <<>>]
UnnamedHost(ip) == [err |-> TRUE, name |-> <<>>, ip |-> ip]

\* strings.Replace(s, old, new, -1), old and new one character
Replace(s, old, new) == [i \in 1..Len(s) |-> IF s[i] = old THEN new ELSE s[i]]

\* Hostname() on host h
Hostname(h) ==
    LET hostname == IF h.err THEN h.ip ELSE h.name IN
      Replace(Replace(Replace(Replace(hostname, "-", "_"), ".", "_"), "*", "_"), ">", "_")

\* r.Values of the pool: NewIDRange("1-N"), NewIPRange("10.0.0.1-10.0.0.N")
IDValues == [m \in Members |-> Itoa(Int64(FALSE, <<m>>))]
IPValues == [m \in Members |-> intToIPv4(<<10, 0, 0, m>>)]
Values == IF rtype = RangeTypeID THEN IDValues ELSE IPValues

\* mutant: the prefix of an ID pool whatever the type of the Range
keyPrefixIgnoresType(r) == locksPrefix \o serviceName \o idsPrefix

\* i.keyPrefix() of replica r
keyPrefix(r) ==
    IF rtype = RangeTypeID
    THEN locksPrefix \o serviceName \o idsPrefix
    ELSE locksPrefix \o serviceName \o hostsPrefix \o Hostname(oshost[r]) \o <<"/">>

\* idLockKey := key + id
Key(r, m) == keyPrefix(r) \o Values[m]

\* the hosts replicas run on: names that differ in a character Hostname replaces,
\* another name, and a host without a name
HostAB == NamedHost(<<"a", "-", "b">>)
HostADotB == NamedHost(<<"a", ".", "b">>)
HostC == NamedHost(<<"c">>)
HostNoName == UnnamedHost(<<"1", "0", ".", "0", ".", "0", ".", "9">>)
OSHosts == {HostAB, HostADotB, HostC, HostNoName}

\* the keys of the store: a prefix of the service and a member of a pool
Keys ==
    LET prefixes == {locksPrefix \o serviceName \o idsPrefix}
                        \cup {locksPrefix \o serviceName \o hostsPrefix \o Hostname(h)
                                 \o <<"/">> : h \in OSHosts}
    IN {p \o IDValues[m] : p \in prefixes, m \in Members}
           \cup {p \o IPValues[m] : p \in prefixes, m \in Members}

\* one ID pool, every replica on the same host
OneHost ==
    /\ rtype = RangeTypeID
    /\ oshost = [r \in Replicas |-> HostC]

\* an ID pool or an IPv4 pool, every replica on some host
SomeHosts ==
    /\ rtype \in {RangeTypeID, RangeTypeIP}
    /\ oshost \in [Replicas -> OSHosts]

\* ---- construction

\* NewLease of every replica, over an empty store
NewLeases ==
    /\ leases = {}
    /\ kv = [k \in Keys |-> NoLease]
    /\ grants = [r \in Replicas |-> 0]
    /\ committed = {}
    /\ revokes = {}
    /\ kills = 0
    /\ pc = [r \in Replicas |-> "idle"]
    /\ api = [r \in Replicas |-> "none"]
    /\ ids = [r \in Replicas |-> <<>>]
    /\ granted = [r \in Replicas |-> NoLease]
    /\ result = [r \in Replicas |-> NoResult]
    /\ value = [r \in Replicas |-> 0]
    /\ lease = [r \in Replicas |-> NoLease]
    /\ leaseKey = [r \in Replicas |-> <<>>]
    /\ closer = [r \in Replicas |-> FALSE]
    /\ stopper = [r \in Replicas |-> FALSE]
    /\ breaker = [r \in Replicas |-> FALSE]
    /\ wpc = [r \in Replicas |-> "none"]
    /\ leaseAlive = [r \in Replicas |-> FALSE]
    /\ keepAlive = [r \in Replicas |-> FALSE]
    /\ regranted = [r \in Replicas |-> NoLease]
    /\ cons = [r \in Replicas |-> <<>>]
    /\ events = [r \in Replicas |-> <<>>]

\* no constructor of a Range and no loadConfig is called
Init ==
    /\ NewLeases
    /\ NewService
    /\ NoRangeCall
    /\ NoConfigCall
    /\ OneHost

\* one call of NewIDRange or NewIPRange
RangeInit ==
    /\ NewLeases
    /\ NewService
    /\ RangeCall
    /\ NoConfigCall
    /\ OneHost

SpecRange == RangeInit /\ [][RangeNext]_vars

\* one call of loadConfig
ConfigInit ==
    /\ NewLeases
    /\ NewService
    /\ NoRangeCall
    /\ ConfigCall
    /\ OneHost

SpecConfig == ConfigInit /\ [][ConfigNext]_vars

\* one address converted to its integer and back
ConvertInit ==
    /\ NewLeases
    /\ NewService
    /\ ConvertCall
    /\ NoConfigCall
    /\ OneHost

SpecConvert == ConvertInit /\ [][ConvertNext]_vars

\* the replicas of one service on their hosts, with an ID pool or an IPv4 pool
HostsInit ==
    /\ NewLeases
    /\ NewService
    /\ NoRangeCall
    /\ NoConfigCall
    /\ SomeHosts

\* ---- Obtain and Wait (the caller's goroutine)

\* lease.Grant of an Obtain pass, then the copy and shuffle of the members
ObtainGrant(r, a) ==
    /\ grants[r] < MaxGrants
    /\ leases' = leases \cup {NewLeaseID(r)}
    /\ grants' = [grants EXCEPT ![r] = @ + 1]
    /\ granted' = [granted EXCEPT ![r] = NewLeaseID(r)]
    /\ \E p \in Perms(Members) : ids' = [ids EXCEPT ![r] = p]
    /\ pc' = [pc EXCEPT ![r] = "txn"]
    /\ api' = [api EXCEPT ![r] = a]
    /\ UNCHANGED <<kv, committed, revokes, kills, result, fieldVars, stopper, breaker,
                   workerVars, cons, events>>

\* Obtain(ctx) is called on a fresh Lease
Obtain(r) ==
    /\ pc[r] = "idle"
    /\ ObtainGrant(r, "Obtain")
    /\ UNCHANGED <<svcVars, utilVars>>

\* Wait(ctx) is called on a fresh Lease: its first Obtain
Wait(r) ==
    /\ pc[r] = "idle"
    /\ ObtainGrant(r, "Wait")
    /\ UNCHANGED <<svcVars, utilVars>>

\* mutant: Wait retries after every error of Obtain
ObtainReturnsErrorAlwaysRetries(r, err) ==
    IF api[r] = "Wait"
    THEN /\ pc' = [pc EXCEPT ![r] = "waiting"]
         /\ UNCHANGED result
    ELSE /\ pc' = [pc EXCEPT ![r] = "failed"]
         /\ result' = [result EXCEPT ![r] = Returned(0, err)]

\* Obtain returns an error to its caller, or to the loop of Wait
ObtainReturnsError(r, err) ==
    IF api[r] = "Wait" /\ err = ErrNoAvailableIDs
    THEN /\ pc' = [pc EXCEPT ![r] = "waiting"]
         /\ UNCHANGED result
    ELSE /\ pc' = [pc EXCEPT ![r] = "failed"]
         /\ result' = [result EXCEPT ![r] = Returned(0, err)]

\* the transaction of the loop found the key taken: next member, or the end of the loop
ObtainTaken(r) ==
    /\ ids' = [ids EXCEPT ![r] = Tail(@)]
    /\ IF Len(ids[r]) = 1
       THEN ObtainReturnsError(r, ErrNoAvailableIDs)
       ELSE UNCHANGED <<pc, result>>
    /\ UNCHANGED <<storeVars, fieldVars, wpc, leaseAlive, keepAlive, cons>>

\* mutant: Obtain forgets i.lease = resp.ID
ObtainSucceededLeaseNotRecorded(r) ==
    LET id == Head(ids[r]) IN
    /\ kv' = [kv EXCEPT ![Key(r, id)] = granted[r]]
    /\ committed' = committed \cup {<<Key(r, id), granted[r]>>}
    /\ cons' = [cons EXCEPT ![r] = Spawn(@, granted[r], "Obtain")]
    /\ value' = [value EXCEPT ![r] = id]
    /\ closer' = [closer EXCEPT ![r] = TRUE]
    /\ leaseKey' = [leaseKey EXCEPT ![r] = Key(r, id)]
    /\ wpc' = [wpc EXCEPT ![r] = "select"]
    /\ leaseAlive' = [leaseAlive EXCEPT ![r] = TRUE]
    /\ keepAlive' = [keepAlive EXCEPT ![r] = TRUE]
    /\ pc' = [pc EXCEPT ![r] = "held"]
    /\ result' = [result EXCEPT ![r] = Returned(id, "nil")]
    /\ ids' = [ids EXCEPT ![r] = <<>>]
    /\ UNCHANGED <<leases, grants, revokes, kills, lease>>

\* the transaction succeeded and KeepAlive returned a channel: the consumer and the
\* worker are started, the fields recorded, the member returned
ObtainSucceeded(r) ==
    LET id == Head(ids[r]) IN
    /\ kv' = [kv EXCEPT ![Key(r, id)] = granted[r]]
    /\ committed' = committed \cup {<<Key(r, id), granted[r]>>}
    /\ cons' = [cons EXCEPT ![r] = Spawn(@, granted[r], "Obtain")]
    /\ value' = [value EXCEPT ![r] = id]
    /\ closer' = [closer EXCEPT ![r] = TRUE]
    /\ lease' = [lease EXCEPT ![r] = granted[r]]
    /\ leaseKey' = [leaseKey EXCEPT ![r] = Key(r, id)]
    /\ wpc' = [wpc EXCEPT ![r] = "select"]
    /\ leaseAlive' = [leaseAlive EXCEPT ![r] = TRUE]
    /\ keepAlive' = [keepAlive EXCEPT ![r] = TRUE]
    /\ pc' = [pc EXCEPT ![r] = "held"]
    /\ result' = [result EXCEPT ![r] = Returned(id, "nil")]
    /\ ids' = [ids EXCEPT ![r] = <<>>]
    /\ UNCHANGED <<leases, grants, revokes, kills>>

\* the transaction was refused because the lease of the pass is gone
ObtainTxnRefused(r) ==
    /\ ObtainReturnsError(r, ErrStore)
    /\ ids' = [ids EXCEPT ![r] = <<>>]
    /\ UNCHANGED <<storeVars, fieldVars, wpc, leaseAlive, keepAlive, cons>>

\* one iteration of the loop over the shuffled members
ObtainTxn(r) ==
    /\ pc[r] = "txn"
    /\ LET out == TxnOutcome(Key(r, Head(ids[r])), granted[r]) IN
         CASE out = "ok" -> ObtainSucceeded(r)
           [] out = "taken" -> ObtainTaken(r)
           [] OTHER -> ObtainTxnRefused(r)
    /\ UNCHANGED <<api, granted, stopper, breaker, regranted, events>>
    /\ UNCHANGED <<svcVars, utilVars>>

\* mutant: when retryInterval elapses Wait gives up instead of calling Obtain again
WaitRetryGivesUp(r) ==
    /\ pc[r] = "waiting"
    /\ pc' = [pc EXCEPT ![r] = "failed"]
    /\ result' = [result EXCEPT ![r] = Returned(0, ErrNoAvailableIDs)]
    /\ UNCHANGED <<storeVars, api, ids, granted, fieldVars, stopper, breaker,
                   workerVars, cons, events>>
    /\ UNCHANGED <<svcVars, utilVars>>

\* Wait: the watch fired or retryInterval elapsed, Obtain is called again
WaitRetry(r) ==
    /\ pc[r] = "waiting"
    /\ ObtainGrant(r, "Wait")
    /\ UNCHANGED <<svcVars, utilVars>>

\* Wait: ctx is done while waiting
WaitCanceled(r) ==
    /\ pc[r] = "waiting"
    /\ pc' = [pc EXCEPT ![r] = "failed"]
    /\ result' = [result EXCEPT ![r] = Returned(0, ErrCanceled)]
    /\ UNCHANGED <<storeVars, api, ids, granted, fieldVars, stopper, breaker,
                   workerVars, cons, events>>
    /\ UNCHANGED <<svcVars, utilVars>>

\* Close(): the stopper is closed, then wg.Wait(), which returns at once when no
\* worker was ever started
Close(r) ==
    /\ pc[r] \in {"idle", "held", "failed"}
    /\ stopper' = [stopper EXCEPT ![r] = TRUE]
    /\ pc' = [pc EXCEPT ![r] = IF wpc[r] = "none" THEN "closed" ELSE "closing"]
    /\ UNCHANGED <<storeVars, api, ids, granted, result, fieldVars, breaker,
                   workerVars, cons, events>>
    /\ UNCHANGED <<svcVars, utilVars>>

\* wg.Wait() of Close returns: the worker is done
CloseReturns(r) ==
    /\ pc[r] = "closing"
    /\ wpc[r] = "exited"
    /\ pc' = [pc EXCEPT ![r] = "closed"]
    /\ UNCHANGED <<storeVars, api, ids, granted, result, fieldVars, stopper, breaker,
                   workerVars, cons, events>>
    /\ UNCHANGED <<svcVars, utilVars>>

\* ---- store errors during Obtain (transport error, ctx of the caller done)

\* lease.Grant fails: Obtain returns the error
ObtainGrantFails(r, a) ==
    /\ api' = [api EXCEPT ![r] = a]
    /\ pc' = [pc EXCEPT ![r] = "failed"]
    /\ result' = [result EXCEPT ![r] = Returned(0, ErrStore)]
    /\ UNCHANGED <<storeVars, ids, granted, fieldVars, stopper, breaker, workerVars,
                   cons, events>>
    /\ UNCHANGED <<svcVars, utilVars>>

ObtainGrantError(r) ==
    \/ pc[r] = "idle" /\ \E a \in {"Obtain", "Wait"} : ObtainGrantFails(r, a)
    \/ pc[r] = "waiting" /\ ObtainGrantFails(r, "Wait")

\* mutant: the member of the failed transaction is recorded before the error is
\* returned
ObtainTxnErrorRecordsMember(r) ==
    /\ pc[r] = "txn"
    /\ pc' = [pc EXCEPT ![r] = "failed"]
    /\ result' = [result EXCEPT ![r] = Returned(0, ErrStore)]
    /\ value' = [value EXCEPT ![r] = Head(ids[r])]
    /\ ids' = [ids EXCEPT ![r] = <<>>]
    /\ UNCHANGED <<storeVars, api, granted, lease, leaseKey, closer, stopper, breaker,
                   workerVars, cons, events>>
    /\ UNCHANGED <<svcVars, utilVars>>

\* txn.Commit fails: Obtain returns the error
ObtainTxnError(r) ==
    /\ pc[r] = "txn"
    /\ pc' = [pc EXCEPT ![r] = "failed"]
    /\ result' = [result EXCEPT ![r] = Returned(0, ErrStore)]
    /\ ids' = [ids EXCEPT ![r] = <<>>]
    /\ UNCHANGED <<storeVars, api, granted, fieldVars, stopper, breaker, workerVars,
                   cons, events>>
    /\ UNCHANGED <<svcVars, utilVars>>

\* the transaction succeeded but KeepAlive fails: cancel() and the error is returned
ObtainKeepAliveError(r) ==
    /\ pc[r] = "txn"
    /\ TxnOutcome(Key(r, Head(ids[r])), granted[r]) = "ok"
    /\ kv' = [kv EXCEPT ![Key(r, Head(ids[r]))] = granted[r]]
    /\ committed' = committed \cup {<<Key(r, Head(ids[r])), granted[r]>>}
    /\ pc' = [pc EXCEPT ![r] = "failed"]
    /\ result' = [result EXCEPT ![r] = Returned(0, ErrStore)]
    /\ ids' = [ids EXCEPT ![r] = <<>>]
    /\ UNCHANGED <<leases, grants, revokes, kills, api, granted, fieldVars, stopper,
                   breaker, workerVars, cons, events>>
    /\ UNCHANGED <<svcVars, utilVars>>

\* ---- keepAliveWorker and the streams

\* the channel of a stream is closed and the goroutine leaves its range loop:
\* a non-blocking send on the breaker, then the goroutine ends
KeepAliveWorkerExit(r, i) ==
    /\ ~cons[r][i].open
    /\ breaker' = [breaker EXCEPT ![r] = TRUE]
    /\ cons' = [cons EXCEPT ![r] = RemoveAt(@, i)]
    /\ UNCHANGED <<storeVars, callerVars, fieldVars, stopper, workerVars, events>>
    /\ UNCHANGED <<svcVars, utilVars>>

keepAliveWorker(r) == \E i \in DOMAIN cons[r] : KeepAliveWorkerExit(r, i)

\* the store library closes the channel of a stream whose lease is gone
StreamEnds(r) ==
    \E i \in DOMAIN cons[r] :
        /\ cons[r][i].open
        /\ cons[r][i].lease \notin leases
        /\ cons' = [cons EXCEPT ![r][i].open = FALSE]
        /\ UNCHANGED <<storeVars, callerVars, fieldVars, stopper, breaker, workerVars,
                       events>>
        /\ UNCHANGED <<svcVars, utilVars>>

\* the store library closes the channel of a stream although the lease is still
\* granted (renewals failed for a while on a flaky connection)
StreamBreaks(r) ==
    \E i \in DOMAIN cons[r] :
        /\ cons[r][i].open
        /\ cons[r][i].lease \in leases
        /\ cons' = [cons EXCEPT ![r][i].open = FALSE]
        /\ UNCHANGED <<storeVars, callerVars, fieldVars, stopper, breaker, workerVars,
                       events>>
        /\ UNCHANGED <<svcVars, utilVars>>

\* a granted lease expires in the store, or is killed from outside
LeaseExpires(l) ==
    /\ l \in leases
    /\ kills < MaxKills
    /\ kills' = kills + 1
    /\ DropLease(l)
    /\ UNCHANGED <<grants, committed, revokes, callerVars, fieldVars, stopper, breaker,
                   workerVars, cons, events>>
    /\ UNCHANGED <<svcVars, utilVars>>

\* no keepAliveWorker of any replica drains an open stream of lease l: no
\* keep-alive request is sent for it
Unrefreshed(l) ==
    \A r \in Replicas : \A i \in DOMAIN cons[r] :
        ~(cons[r][i].open /\ cons[r][i].lease = l)

\* a lease granted for etcdLeaseTTL seconds that gets no keep-alive runs out: the
\* store drops it with its keys
LeaseTimesOut(l) ==
    /\ l \in leases
    /\ Unrefreshed(l)
    /\ DropLease(l)
    /\ UNCHANGED <<grants, committed, revokes, kills, callerVars, fieldVars, stopper,
                   breaker, workerVars, cons, events>>
    /\ UNCHANGED <<svcVars, utilVars>>

\* ---- worker (the supervisor goroutine) and reacquire

\* mutant: the worker deletes the key it recorded instead of revoking its lease
WorkerExitDeletesKey(r, revoked) ==
    /\ wpc' = [wpc EXCEPT ![r] = "exited"]
    /\ cons' = [cons EXCEPT ![r] = IF closer[r] THEN CallCloser(@) ELSE @]
    /\ closer' = [closer EXCEPT ![r] = FALSE]
    /\ revokes' = IF leaseAlive[r] THEN revokes \cup {lease[r]} ELSE revokes
    /\ kv' = IF revoked THEN [kv EXCEPT ![leaseKey[r]] = NoLease] ELSE kv
    /\ leases' = IF revoked THEN leases \ {lease[r]} ELSE leases
    /\ UNCHANGED <<grants, committed, kills, callerVars, value, lease, leaseKey,
                   stopper, breaker, leaseAlive, keepAlive, regranted>>

\* mutant: the worker leaves its loop without calling the closer
WorkerExitKeepsStream(r, revoked) ==
    /\ wpc' = [wpc EXCEPT ![r] = "exited"]
    /\ revokes' = IF leaseAlive[r] THEN revokes \cup {lease[r]} ELSE revokes
    /\ IF leaseAlive[r] /\ revoked
       THEN DropLease(lease[r])
       ELSE UNCHANGED <<leases, kv>>
    /\ UNCHANGED <<grants, committed, kills, callerVars, value, lease, leaseKey,
                   stopper, breaker, leaseAlive, keepAlive, regranted, cons, closer>>

\* mutant: the worker revokes the recorded lease whatever leaseAlive says
WorkerExitAlwaysRevokes(r, revoked) ==
    /\ wpc' = [wpc EXCEPT ![r] = "exited"]
    /\ cons' = [cons EXCEPT ![r] = IF closer[r] THEN CallCloser(@) ELSE @]
    /\ closer' = [closer EXCEPT ![r] = FALSE]
    /\ revokes' = revokes \cup {lease[r]}
    /\ IF revoked THEN DropLease(lease[r]) ELSE UNCHANGED <<leases, kv>>
    /\ UNCHANGED <<grants, committed, kills, callerVars, value, lease, leaseKey,
                   stopper, breaker, leaseAlive, keepAlive, regranted>>

\* after the loop: the closer is called if it is set, and the lease is revoked if
\* leaseAlive; revoked: the store received and applied the Revoke
WorkerExit(r, revoked) ==
    /\ wpc' = [wpc EXCEPT ![r] = "exited"]
    /\ cons' = [cons EXCEPT ![r] = IF closer[r] THEN CallCloser(@) ELSE @]
    /\ closer' = [closer EXCEPT ![r] = FALSE]
    /\ revokes' = IF leaseAlive[r] THEN revokes \cup {lease[r]} ELSE revokes
    /\ IF leaseAlive[r] /\ revoked
       THEN DropLease(lease[r])
       ELSE UNCHANGED <<leases, kv>>
    /\ UNCHANGED <<grants, committed, kills, callerVars, value, lease, leaseKey,
                   stopper, breaker, leaseAlive, keepAlive, regranted>>

\* case <-i.stopper
WorkerStop(r) ==
    /\ wpc[r] = "select"
    /\ stopper[r]
    /\ WorkerExit(r, TRUE)
    /\ UNCHANGED events
    /\ UNCHANGED <<svcVars, utilVars>>

\* mutant: the breaker is drained but keepAlive stays true
WorkerBreakerIgnored(r) ==
    /\ wpc[r] = "select"
    /\ breaker[r]
    /\ breaker' = [breaker EXCEPT ![r] = FALSE]
    /\ UNCHANGED <<storeVars, callerVars, fieldVars, stopper, workerVars, cons, events>>
    /\ UNCHANGED <<svcVars, utilVars>>

\* case <-i.breaker
WorkerBreaker(r) ==
    /\ wpc[r] = "select"
    /\ breaker[r]
    /\ breaker' = [breaker EXCEPT ![r] = FALSE]
    /\ IF keepAlive[r]
       THEN /\ keepAlive' = [keepAlive EXCEPT ![r] = FALSE]
            /\ cons' = [cons EXCEPT ![r] = IF closer[r] THEN CallCloser(@) ELSE @]
            /\ closer' = [closer EXCEPT ![r] = FALSE]
       ELSE UNCHANGED <<keepAlive, cons, closer>>
    /\ UNCHANGED <<storeVars, callerVars, value, lease, leaseKey, stopper, wpc,
                   leaseAlive, regranted, events>>
    /\ UNCHANGED <<svcVars, utilVars>>

\* lease.Grant of reacquire
ReacquireGrant(r) ==
    /\ grants[r] < MaxGrants
    /\ leases' = leases \cup {NewLeaseID(r)}
    /\ grants' = [grants EXCEPT ![r] = @ + 1]
    /\ regranted' = [regranted EXCEPT ![r] = NewLeaseID(r)]
    /\ wpc' = [wpc EXCEPT ![r] = "retxn"]
    /\ UNCHANGED <<kv, committed, revokes, kills, callerVars, fieldVars, stopper, breaker,
                   leaseAlive, keepAlive, cons, events>>

\* mutant: the worker emits LeaseExpired and forgets leaseAlive = false
WorkerCheckLeaseKeepsLeaseAlive(r) ==
    IF lease[r] \notin leases
    THEN /\ Emit(r, EventTypeLeaseExpired)
         /\ UNCHANGED <<storeVars, callerVars, fieldVars, stopper, breaker, workerVars,
                        cons>>
    ELSE /\ cons' = [cons EXCEPT ![r] = Spawn(@, lease[r], "worker")]
         /\ closer' = [closer EXCEPT ![r] = TRUE]
         /\ keepAlive' = [keepAlive EXCEPT ![r] = TRUE]
         /\ UNCHANGED <<storeVars, callerVars, value, lease, leaseKey, stopper, breaker,
                        wpc, leaseAlive, regranted, events>>

\* mutant: the worker reattaches a stream and forgets keepAlive = true
WorkerCheckLeaseForgetsKeepAlive(r) ==
    IF lease[r] \notin leases
    THEN /\ Emit(r, EventTypeLeaseExpired)
         /\ leaseAlive' = [leaseAlive EXCEPT ![r] = FALSE]
         /\ wpc' = [wpc EXCEPT ![r] = "regrant"]
         /\ UNCHANGED <<storeVars, callerVars, fieldVars, stopper, breaker, keepAlive,
                        regranted, cons>>
    ELSE /\ cons' = [cons EXCEPT ![r] = Spawn(@, lease[r], "worker")]
         /\ closer' = [closer EXCEPT ![r] = TRUE]
         /\ UNCHANGED <<storeVars, callerVars, value, lease, leaseKey, stopper, breaker,
                        wpc, leaseAlive, keepAlive, regranted, events>>

\* mutant: the worker finds the lease expired without emitting LeaseExpired
WorkerCheckLeaseSilent(r) ==
    IF lease[r] \notin leases
    THEN /\ leaseAlive' = [leaseAlive EXCEPT ![r] = FALSE]
         /\ wpc' = [wpc EXCEPT ![r] = "regrant"]
         /\ UNCHANGED <<storeVars, callerVars, fieldVars, stopper, breaker, keepAlive,
                        regranted, cons, events>>
    ELSE /\ cons' = [cons EXCEPT ![r] = Spawn(@, lease[r], "worker")]
         /\ closer' = [closer EXCEPT ![r] = TRUE]
         /\ keepAlive' = [keepAlive EXCEPT ![r] = TRUE]
         /\ UNCHANGED <<storeVars, callerVars, value, lease, leaseKey, stopper, breaker,
                        wpc, leaseAlive, regranted, events>>

\* mutant: the worker takes every answer of TimeToLive for an expired lease
WorkerCheckLeaseAlwaysExpired(r) ==
    /\ Emit(r, EventTypeLeaseExpired)
    /\ leaseAlive' = [leaseAlive EXCEPT ![r] = FALSE]
    /\ wpc' = [wpc EXCEPT ![r] = "regrant"]
    /\ UNCHANGED <<storeVars, callerVars, fieldVars, stopper, breaker, keepAlive,
                   regranted, cons>>

\* tick, keep-alive lost, lease believed alive: TimeToLive answers
WorkerCheckLease(r) ==
    IF lease[r] \notin leases
    THEN \* TTL <= 0: the event, then reacquire is entered
         /\ Emit(r, EventTypeLeaseExpired)
         /\ leaseAlive' = [leaseAlive EXCEPT ![r] = FALSE]
         /\ wpc' = [wpc EXCEPT ![r] = "regrant"]
         /\ UNCHANGED <<storeVars, callerVars, fieldVars, stopper, breaker, keepAlive,
                        regranted, cons>>
    ELSE \* TTL > 0: a new stream on the same lease
         /\ cons' = [cons EXCEPT ![r] = Spawn(@, lease[r], "worker")]
         /\ closer' = [closer EXCEPT ![r] = TRUE]
         /\ keepAlive' = [keepAlive EXCEPT ![r] = TRUE]
         /\ UNCHANGED <<storeVars, callerVars, value, lease, leaseKey, stopper, breaker,
                        wpc, leaseAlive, regranted, events>>

\* case <-tk.C
WorkerTick(r) ==
    /\ wpc[r] = "select"
    /\ CASE keepAlive[r] -> UNCHANGED vars
         [] ~keepAlive[r] /\ leaseAlive[r] -> WorkerCheckLease(r)
         [] OTHER -> ReacquireGrant(r)
    /\ UNCHANGED <<svcVars, utilVars>>

\* reacquire is entered in the tick that found the lease expired
WorkerReacquire(r) ==
    /\ wpc[r] = "regrant"
    /\ ReacquireGrant(r)
    /\ UNCHANGED <<svcVars, utilVars>>

\* mutant: a key that is taken is handled like reacquireFailure
ReacquireLeaseTakenRetries(r) ==
    /\ wpc' = [wpc EXCEPT ![r] = "select"]
    /\ UNCHANGED <<storeVars, callerVars, fieldVars, stopper, breaker, leaseAlive,
                   keepAlive, regranted, cons, events>>

\* the switch on reacquireLeaseTaken: the event, break, and the code after the loop
ReacquireLeaseTaken(r) ==
    /\ Emit(r, EventTypeLeaseIsTakenOver)
    /\ WorkerExit(r, TRUE)

\* mutant: reacquire forgets i.lease = resp.ID
ReacquireSuccessLeaseNotRecorded(r) ==
    /\ kv' = [kv EXCEPT ![leaseKey[r]] = regranted[r]]
    /\ committed' = committed \cup {<<leaseKey[r], regranted[r]>>}
    /\ cons' = [cons EXCEPT ![r] = Spawn(@, regranted[r], "reacquire")]
    /\ closer' = [closer EXCEPT ![r] = TRUE]
    /\ Emit(r, EventTypeLeaseReacquired)
    /\ leaseAlive' = [leaseAlive EXCEPT ![r] = TRUE]
    /\ keepAlive' = [keepAlive EXCEPT ![r] = TRUE]
    /\ wpc' = [wpc EXCEPT ![r] = "select"]
    /\ UNCHANGED <<leases, grants, revokes, kills, callerVars, value, lease, leaseKey, stopper,
                   breaker, regranted>>

\* the transaction of reacquire succeeded and KeepAlive returned a channel
ReacquireSuccess(r) ==
    /\ kv' = [kv EXCEPT ![leaseKey[r]] = regranted[r]]
    /\ committed' = committed \cup {<<leaseKey[r], regranted[r]>>}
    /\ cons' = [cons EXCEPT ![r] = Spawn(@, regranted[r], "reacquire")]
    /\ closer' = [closer EXCEPT ![r] = TRUE]
    /\ lease' = [lease EXCEPT ![r] = regranted[r]]
    /\ Emit(r, EventTypeLeaseReacquired)
    /\ leaseAlive' = [leaseAlive EXCEPT ![r] = TRUE]
    /\ keepAlive' = [keepAlive EXCEPT ![r] = TRUE]
    /\ wpc' = [wpc EXCEPT ![r] = "select"]
    /\ UNCHANGED <<leases, grants, revokes, kills, callerVars, value, leaseKey, stopper,
                   breaker, regranted>>

\* mutant: reacquire tries again by itself instead of returning reacquireFailure
ReacquireFailureTriesAgain(r) ==
    /\ wpc' = [wpc EXCEPT ![r] = "regrant"]
    /\ UNCHANGED <<storeVars, callerVars, fieldVars, stopper, breaker, leaseAlive,
                   keepAlive, regranted, cons, events>>

\* mutant: reacquireFailure is handled like reacquireLeaseTaken without the event
ReacquireFailureBreaks(r) ==
    /\ wpc' = [wpc EXCEPT ![r] = "exited"]
    /\ UNCHANGED <<storeVars, callerVars, fieldVars, stopper, breaker, leaseAlive,
                   keepAlive, regranted, cons, events>>

\* reacquireFailure: back to the loop, the next tick tries again
ReacquireFailure(r) ==
    /\ wpc' = [wpc EXCEPT ![r] = "select"]
    /\ UNCHANGED <<storeVars, callerVars, fieldVars, stopper, breaker, leaseAlive,
                   keepAlive, regranted, cons, events>>

\* the transaction of reacquire on the same leaseKey
WorkerReacquireTxn(r) ==
    /\ wpc[r] = "retxn"
    /\ LET out == TxnOutcome(leaseKey[r], regranted[r]) IN
         CASE out = "ok" -> ReacquireSuccess(r)
           [] out = "taken" -> ReacquireLeaseTaken(r)
           [] OTHER -> ReacquireFailure(r)
    /\ UNCHANGED <<svcVars, utilVars>>

\* ---- store errors in the worker

\* TimeToLive fails, or KeepAlive on the lease that is still alive fails: continue
WorkerCheckError(r) ==
    /\ wpc[r] = "select"
    /\ ~keepAlive[r]
    /\ leaseAlive[r]
    /\ UNCHANGED vars
    /\ UNCHANGED <<svcVars, utilVars>>

\* lease.Grant of reacquire fails
ReacquireGrantError(r) ==
    /\ \/ wpc[r] = "regrant"
       \/ wpc[r] = "select" /\ ~keepAlive[r] /\ ~leaseAlive[r]
    /\ ReacquireFailure(r)
    /\ UNCHANGED <<svcVars, utilVars>>

\* txn.Commit of reacquire fails
ReacquireTxnError(r) ==
    /\ wpc[r] = "retxn"
    /\ ReacquireFailure(r)
    /\ UNCHANGED <<svcVars, utilVars>>

\* the transaction of reacquire succeeded but KeepAlive fails: reacquireFailure,
\* with the key now attached to the lease of this attempt
ReacquireKeepAliveError(r) ==
    /\ wpc[r] = "retxn"
    /\ TxnOutcome(leaseKey[r], regranted[r]) = "ok"
    /\ kv' = [kv EXCEPT ![leaseKey[r]] = regranted[r]]
    /\ committed' = committed \cup {<<leaseKey[r], regranted[r]>>}
    /\ wpc' = [wpc EXCEPT ![r] = "select"]
    /\ UNCHANGED <<leases, grants, revokes, kills, callerVars, fieldVars, stopper, breaker,
                   leaseAlive, keepAlive, regranted, cons, events>>
    /\ UNCHANGED <<svcVars, utilVars>>

\* the Revoke after the loop does not reach the store
WorkerStopRevokeError(r) ==
    /\ wpc[r] = "select"
    /\ stopper[r]
    /\ leaseAlive[r]
    /\ WorkerExit(r, FALSE)
    /\ UNCHANGED events
    /\ UNCHANGED <<svcVars, utilVars>>

\* ---- specifications

\* the program and the store, the store reachable
Steps ==
    \E r \in Replicas :
        \/ Obtain(r)
        \/ Wait(r)
        \/ ObtainTxn(r)
        \/ WaitRetry(r)
        \/ Close(r)
        \/ CloseReturns(r)
        \/ keepAliveWorker(r)
        \/ StreamEnds(r)
        \/ WorkerStop(r)
        \/ WorkerBreaker(r)
        \/ WorkerTick(r)
        \/ WorkerReacquire(r)
        \/ WorkerReacquireTxn(r)

\* what the environment does to a healthy pool-lease
Faults ==
    \/ \E l \in LeaseIds : LeaseExpires(l)
    \/ \E r \in Replicas : StreamBreaks(r)

\* store calls that fail, and the caller's ctx
Errors ==
    \E r \in Replicas :
        \/ ObtainGrantError(r)
        \/ ObtainTxnError(r)
        \/ ObtainKeepAliveError(r)
        \/ WaitCanceled(r)
        \/ WorkerCheckError(r)
        \/ ReacquireGrantError(r)
        \/ ReacquireTxnError(r)
        \/ ReacquireKeepAliveError(r)
        \/ WorkerStopRevokeError(r)

Next == Steps \/ Faults \/ Errors

Spec == Init /\ [][Next]_vars

\* the whole program with store calls that fail; the ticker of every worker keeps
\* ticking
RetryFairness == \A r \in Replicas : WF_vars(WorkerTick(r))

SpecRetry == Init /\ [][Next]_vars /\ RetryFairness

\* the whole program with store calls that fail, each of which returns: the call
\* the worker is in returns with an answer or an error, the select of the worker
\* takes the closed stopper one time or another, and Close is scheduled
CloseFairness ==
    \A r \in Replicas :
        /\ WF_vars(WorkerReacquire(r) \/ ReacquireGrantError(r))
        /\ WF_vars(WorkerReacquireTxn(r) \/ ReacquireTxnError(r)
                      \/ ReacquireKeepAliveError(r))
        /\ SF_vars(WorkerStop(r) \/ WorkerStopRevokeError(r))
        /\ WF_vars(CloseReturns(r))

SpecClose == Init /\ [][Next]_vars /\ CloseFairness

\* replicas that call Obtain and later Close, with streams that break, a KeepAlive
\* and a Revoke that may fail, and the TTL of the leases: a lease runs out when it
\* gets no keep-alive, and only then (a stream is closed before its lease is gone)
ExpirySteps(r) ==
    \/ Obtain(r)
    \/ ObtainTxn(r)
    \/ Close(r)
    \/ CloseReturns(r)
    \/ keepAliveWorker(r)
    \/ StreamBreaks(r)
    \/ WorkerStop(r)
    \/ WorkerBreaker(r)
    \/ WorkerTick(r)
    \/ WorkerReacquire(r)
    \/ WorkerReacquireTxn(r)
    \/ ObtainKeepAliveError(r)
    \/ ReacquireKeepAliveError(r)
    \/ WorkerStopRevokeError(r)

ExpiryNext == (\E r \in Replicas : ExpirySteps(r)) \/ \E l \in LeaseIds : LeaseTimesOut(l)

\* the clock of the store runs
ExpiryFairness == \A l \in LeaseIds : WF_vars(LeaseTimesOut(l))

SpecExpiry == Init /\ [][ExpiryNext]_vars /\ ExpiryFairness

\* replicas that called Obtain and keep their pool-lease open, with leases that
\* expire and streams that break; the store is reachable
HoldSteps(r) ==
    \/ Obtain(r)
    \/ ObtainTxn(r)
    \/ keepAliveWorker(r)
    \/ StreamEnds(r)
    \/ WorkerBreaker(r)
    \/ WorkerTick(r)
    \/ WorkerReacquire(r)
    \/ WorkerReacquireTxn(r)

HoldNext == (\E r \in Replicas : HoldSteps(r)) \/ Faults

\* the ticker keeps ticking, goroutines are scheduled, and the store library
\* closes the channel of a stream whose lease is gone
HoldFairness ==
    \A r \in Replicas :
        /\ WF_vars(ObtainTxn(r))
        /\ WF_vars(keepAliveWorker(r))
        /\ WF_vars(StreamEnds(r))
        /\ WF_vars(WorkerBreaker(r))
        /\ WF_vars(WorkerTick(r))
        /\ WF_vars(WorkerReacquire(r))
        /\ WF_vars(WorkerReacquireTxn(r))

SpecHold == Init /\ [][HoldNext]_vars /\ HoldFairness

\* the same replicas, each on a host of its own choice, over either kind of pool
SpecHosts == HostsInit /\ [][HoldNext]_vars

\* events.OnEvent panics: worker has no recover, the panic unwinds the goroutine
\* and ends the process of the replica with its goroutines; nothing after the
\* call is executed
SinkPanics(r, kind) ==
    /\ Emit(r, kind)
    /\ wpc' = [wpc EXCEPT ![r] = "panicked"]
    /\ pc' = [pc EXCEPT ![r] = "crashed"]
    /\ cons' = [cons EXCEPT ![r] = <<>>]
    /\ UNCHANGED <<leases, grants, revokes, kills, api, ids, granted, result, value,
                   leaseKey, closer, stopper, breaker, leaseAlive, keepAlive, regranted>>

\* the sink panics on EventTypeLeaseExpired
WorkerCheckLeaseSinkPanics(r) ==
    /\ wpc[r] = "select"
    /\ ~keepAlive[r]
    /\ leaseAlive[r]
    /\ lease[r] \notin leases
    /\ SinkPanics(r, EventTypeLeaseExpired)
    /\ UNCHANGED <<kv, committed, lease>>
    /\ UNCHANGED <<svcVars, utilVars>>

\* the sink panics on EventTypeLeaseReacquired: reacquire has put the key and
\* recorded the lease
ReacquireSuccessSinkPanics(r) ==
    /\ wpc[r] = "retxn"
    /\ TxnOutcome(leaseKey[r], regranted[r]) = "ok"
    /\ kv' = [kv EXCEPT ![leaseKey[r]] = regranted[r]]
    /\ committed' = committed \cup {<<leaseKey[r], regranted[r]>>}
    /\ lease' = [lease EXCEPT ![r] = regranted[r]]
    /\ SinkPanics(r, EventTypeLeaseReacquired)
    /\ UNCHANGED <<svcVars, utilVars>>

\* the sink panics on EventTypeLeaseIsTakenOver
ReacquireLeaseTakenSinkPanics(r) ==
    /\ wpc[r] = "retxn"
    /\ TxnOutcome(leaseKey[r], regranted[r]) = "taken"
    /\ SinkPanics(r, EventTypeLeaseIsTakenOver)
    /\ UNCHANGED <<kv, committed, lease>>
    /\ UNCHANGED <<svcVars, utilVars>>

\* a sink that panics
SinkFaults ==
    \E r \in Replicas :
        \/ WorkerCheckLeaseSinkPanics(r)
        \/ ReacquireSuccessSinkPanics(r)
        \/ ReacquireLeaseTakenSinkPanics(r)

SinkNext == HoldNext \/ SinkFaults

\* replicas that keep their pool-lease open, with a sink that may panic
SpecSink == Init /\ [][SinkNext]_vars

\* the whole program while the store is reachable and no ctx is cancelled: no
\* store call fails; leases still expire and streams still break
LiveNext == Steps \/ Faults

\* the timer of Wait fires, the ticker ticks and every goroutine is scheduled
LiveFairness ==
    \A r \in Replicas :
        /\ WF_vars(ObtainTxn(r))
        /\ WF_vars(WaitRetry(r))
        /\ WF_vars(WorkerStop(r))

SpecLive == Init /\ [][LiveNext]_vars /\ LiveFairness

\* ---- Service: AcquireLock and ReleaseLock (the callers' goroutines)

\* no goroutine has panicked (a nil session dereferenced, a closed channel
\* closed again): a panic ends the process
Running ==
    /\ \A t \in Callers : tpc[t] \notin {"panic", "closepanic"}
    /\ mpc # "closepanic"

\* the calls of AcquireLock that passed the registry check and have not returned
Acquiring == {t \in Callers : tpc[t] \in {"newmutex", "insert"}}

\* a call returns to its caller; its locals are gone
ReturnLock(t, op, err, rec) ==
    /\ tpc' = [tpc EXCEPT ![t] = "idle"]
    /\ ret' = LockResult(t, op, err, rec)
    /\ tname' = [tname EXCEPT ![t] = 0]
    /\ tmu' = [tmu EXCEPT ![t] = 0]

\* AcquireLock(ctx, name) is called: under the lock, the session is compared with
\* nil and the registry is looked up; then the lock is given up
AcquireLock(t, n) ==
    /\ Running
    /\ tpc[t] = "idle"
    /\ Len(recs) + Cardinality(Acquiring) < MaxRecords
    /\ IF session = NoSession
       THEN ReturnLock(t, "AcquireLock", ErrSessionNotAvailable, NoRecord)
       ELSE IF mutexes[n] # NoRecord
       THEN ReturnLock(t, "AcquireLock", ErrMutexAlreadyAcquired, NoRecord)
       ELSE /\ tpc' = [tpc EXCEPT ![t] = "newmutex"]
            /\ tname' = [tname EXCEPT ![t] = n]
            /\ UNCHANGED <<tmu, ret>>
    /\ UNCHANGED <<session, svcStoreVars, mutexes, recs, svcStopper, cpc, monitorVars,
                   leaseVars, utilVars>>

\* concurrency.NewMutex(c.session, key) reads the field without the lock, and
\* TryLock goes to the store: a nil session is dereferenced, a session whose lease
\* is gone is refused by the store, and a live session gets its key, which exists
\* already when another mutex of the same session holds the same name
AcquireTryLock(t) ==
    /\ Running
    /\ tpc[t] = "newmutex"
    /\ CASE session = NoSession ->
              /\ tpc' = [tpc EXCEPT ![t] = "panic"]
              /\ UNCHANGED <<locks, tname, tmu, ret>>
         [] session # NoSession /\ session \notin sessions ->
              /\ ReturnLock(t, "AcquireLock", ErrStore, NoRecord)
              /\ UNCHANGED locks
         [] OTHER ->
              /\ locks' = locks \cup {<<tname[t], session>>}
              /\ tmu' = [tmu EXCEPT ![t] = session]
              /\ tpc' = [tpc EXCEPT ![t] = "insert"]
              /\ UNCHANGED <<tname, ret>>
    /\ UNCHANGED <<session, sessions, created, mutexes, recs, svcStopper, cpc,
                   monitorVars, leaseVars, utilVars>>

\* the muRecord is made and, under the lock, stored in the registry under its key;
\* its donec is returned
AcquireInsert(t) ==
    /\ Running
    /\ tpc[t] = "insert"
    /\ recs' = Append(recs, [name |-> tname[t], sess |-> tmu[t], closed |-> FALSE])
    /\ mutexes' = [mutexes EXCEPT ![tname[t]] = Len(recs) + 1]
    /\ ReturnLock(t, "AcquireLock", "nil", Len(recs) + 1)
    /\ UNCHANGED <<session, svcStoreVars, svcStopper, cpc, monitorVars, leaseVars,
                   utilVars>>

\* ReleaseLock(ctx, name) is called: under the lock, the registry is looked up; a
\* missing key returns nil
ReleaseLock(t, n) ==
    /\ Running
    /\ tpc[t] = "idle"
    /\ IF mutexes[n] = NoRecord
       THEN ReturnLock(t, "ReleaseLock", "nil", NoRecord)
       ELSE /\ tname' = [tname EXCEPT ![t] = n]
            /\ tmu' = [tmu EXCEPT ![t] = mutexes[n]]
            /\ tpc' = [tpc EXCEPT ![t] = "unlock"]
            /\ UNCHANGED ret
    /\ UNCHANGED <<session, svcStoreVars, mutexes, recs, svcStopper, cpc, monitorVars,
                   leaseVars, utilVars>>

\* mutex.mu.Unlock(ctx) of the record read first: its key is deleted in the store
\* (a closed client answers with an error only)
ReleaseUnlock(t) ==
    /\ Running
    /\ tpc[t] = "unlock"
    /\ cpc # "closed"
    /\ locks' = locks \ {<<recs[tmu[t]].name, recs[tmu[t]].sess>>}
    /\ tpc' = [tpc EXCEPT ![t] = "finish"]
    /\ UNCHANGED <<session, sessions, created, mutexes, recs, svcStopper, cpc,
                   monitorVars, tname, tmu, ret, leaseVars, utilVars>>

\* mutant: ReleaseLock closes the donec and leaves the record in the registry
ReleaseFinishKeepsRecord(t) ==
    /\ Running
    /\ tpc[t] = "finish"
    /\ LET rec == mutexes[tname[t]] IN
         IF rec # NoRecord
         THEN recs' = [recs EXCEPT ![rec].closed = TRUE]
         ELSE UNCHANGED recs
    /\ ReturnLock(t, "ReleaseLock", "nil", tmu[t])
    /\ UNCHANGED <<session, svcStoreVars, mutexes, svcStopper, cpc, monitorVars,
                   leaseVars, utilVars>>

\* mutant: under the lock again, the donec of the record read first is closed and
\* the key is deleted
ReleaseFinishClosesFirstRead(t) ==
    /\ Running
    /\ tpc[t] = "finish"
    /\ IF recs[tmu[t]].closed
       THEN /\ tpc' = [tpc EXCEPT ![t] = "closepanic"]
            /\ UNCHANGED <<recs, mutexes, tname, tmu, ret>>
       ELSE /\ recs' = [recs EXCEPT ![tmu[t]].closed = TRUE]
            /\ mutexes' = [mutexes EXCEPT ![tname[t]] = NoRecord]
            /\ ReturnLock(t, "ReleaseLock", "nil", tmu[t])
    /\ UNCHANGED <<session, svcStoreVars, svcStopper, cpc, monitorVars, leaseVars,
                   utilVars>>

\* under the lock again: whatever record the registry has under the key now gets
\* its donec closed (close of a closed channel panics) and is deleted
ReleaseFinish(t) ==
    /\ Running
    /\ tpc[t] = "finish"
    /\ LET rec == mutexes[tname[t]] IN
         CASE rec = NoRecord ->
                /\ ReturnLock(t, "ReleaseLock", "nil", tmu[t])
                /\ UNCHANGED <<recs, mutexes>>
           [] rec # NoRecord /\ recs[rec].closed ->
                /\ tpc' = [tpc EXCEPT ![t] = "closepanic"]
                /\ UNCHANGED <<recs, mutexes, tname, tmu, ret>>
           [] OTHER ->
                /\ recs' = [recs EXCEPT ![rec].closed = TRUE]
                /\ mutexes' = [mutexes EXCEPT ![tname[t]] = NoRecord]
                /\ ReturnLock(t, "ReleaseLock", "nil", tmu[t])
    /\ UNCHANGED <<session, svcStoreVars, svcStopper, cpc, monitorVars, leaseVars,
                   utilVars>>

\* TryLock fails: ctx deadline (ErrEtcdTimeout), the key is locked by a session of
\* another Service (ErrMutexAlreadyAcquired), or another error of the store
AcquireTryLockError(t) ==
    /\ Running
    /\ tpc[t] = "newmutex"
    /\ session # NoSession
    /\ \E err \in {ErrEtcdTimeout, ErrMutexAlreadyAcquired, ErrStore} :
           ReturnLock(t, "AcquireLock", err, NoRecord)
    /\ UNCHANGED <<session, svcStoreVars, mutexes, recs, svcStopper, cpc, monitorVars,
                   leaseVars, utilVars>>

\* mutant: the record is closed and deleted although Unlock failed
ReleaseUnlockErrorDropsRecord(t) ==
    /\ Running
    /\ tpc[t] = "unlock"
    /\ recs' = [recs EXCEPT ![tmu[t]].closed = TRUE]
    /\ mutexes' = [mutexes EXCEPT ![tname[t]] = NoRecord]
    /\ \E err \in {ErrEtcdTimeout, ErrStore} : ReturnLock(t, "ReleaseLock", err, tmu[t])
    /\ UNCHANGED <<session, svcStoreVars, svcStopper, cpc, monitorVars, leaseVars,
                   utilVars>>

\* Unlock fails: ctx deadline or another error of the store; the record stays
ReleaseUnlockError(t) ==
    /\ Running
    /\ tpc[t] = "unlock"
    /\ \E err \in {ErrEtcdTimeout, ErrStore} : ReturnLock(t, "ReleaseLock", err, tmu[t])
    /\ UNCHANGED <<session, svcStoreVars, mutexes, recs, svcStopper, cpc, monitorVars,
                   leaseVars, utilVars>>

\* ---- Service: monitorSession, Close and the store's sessions

\* the lease of a session is gone in the store (expired or revoked): the keys
\* attached to it are deleted and the Done channel of the session is closed
DropSession(s) ==
    /\ sessions' = sessions \ {s}
    /\ locks' = {l \in locks : l[2] # s}

\* a session of the Service dies
SessionDies(s) ==
    /\ s \in sessions
    /\ DropSession(s)
    /\ UNCHANGED <<session, created, mutexes, recs, svcStopper, cpc, monitorVars,
                   lockCallVars, leaseVars, utilVars>>

\* mutant: the monitor replaces the session and leaves the registry alone
MonitorSessionDoneKeepsRegistry ==
    /\ Running
    /\ mpc = "select"
    /\ ch \notin sessions
    /\ session' = NoSession
    /\ mpc' = "notify"
    /\ UNCHANGED <<svcStoreVars, mutexes, recs, svcStopper, cpc, ch, oldMutexes,
                   lockCallVars, leaseVars, utilVars>>

\* case <-ch: under the lock, the registry is taken and replaced by an empty one and
\* the session is set to nil (its Close, in a goroutine of its own, finds the lease
\* gone already)
MonitorSessionDone ==
    /\ Running
    /\ mpc = "select"
    /\ ch \notin sessions
    /\ oldMutexes' = {mutexes[n] : n \in Names} \ {NoRecord}
    /\ mutexes' = [n \in Names |-> NoRecord]
    /\ session' = NoSession
    /\ mpc' = "notify"
    /\ UNCHANGED <<svcStoreVars, recs, svcStopper, cpc, ch, lockCallVars, leaseVars, utilVars>>

\* the donec of every record taken from the registry is closed (close of a closed
\* channel panics)
MonitorNotify ==
    /\ Running
    /\ mpc = "notify"
    /\ IF \E i \in oldMutexes : recs[i].closed
       THEN /\ mpc' = "closepanic"
            /\ UNCHANGED <<recs, oldMutexes>>
       ELSE /\ recs' = [i \in DOMAIN recs |->
                         IF i \in oldMutexes THEN [recs[i] EXCEPT !.closed = TRUE]
                         ELSE recs[i]]
            /\ oldMutexes' = {}
            /\ mpc' = "create"
    /\ UNCHANGED <<session, svcStoreVars, mutexes, svcStopper, cpc, ch, lockCallVars,
                   leaseVars, utilVars>>

\* createSession succeeds: the session is stored under the lock, and the monitor
\* selects on its Done channel from now on
MonitorCreateSession ==
    /\ Running
    /\ mpc = "create"
    /\ created < MaxSessions
    /\ created' = created + 1
    /\ sessions' = sessions \cup {created + 1}
    /\ session' = created + 1
    /\ ch' = created + 1
    /\ mpc' = "select"
    /\ UNCHANGED <<locks, mutexes, recs, svcStopper, cpc, oldMutexes, lockCallVars,
                   leaseVars, utilVars>>

\* createSession fails: the monitor waits for the stopper or retryInterval
MonitorCreateFails ==
    /\ Running
    /\ mpc = "create"
    /\ mpc' = "backoff"
    /\ UNCHANGED <<session, svcStoreVars, mutexes, recs, svcStopper, cpc, ch, oldMutexes,
                   lockCallVars, leaseVars, utilVars>>

\* case <-time.After(retryInterval): createSession is called again
MonitorBackoff ==
    /\ Running
    /\ mpc = "backoff"
    /\ mpc' = "create"
    /\ UNCHANGED <<session, svcStoreVars, mutexes, recs, svcStopper, cpc, ch, oldMutexes,
                   lockCallVars, leaseVars, utilVars>>

\* mutant: the stopper is honoured in the outer select only
MonitorStopOuterSelectOnly ==
    /\ Running
    /\ mpc = "select"
    /\ svcStopper
    /\ mpc' = "done"
    /\ UNCHANGED <<session, svcStoreVars, mutexes, recs, svcStopper, cpc, ch, oldMutexes,
                   lockCallVars, leaseVars, utilVars>>

\* case <-c.stopper, in either select: the monitor returns
MonitorStop ==
    /\ Running
    /\ mpc \in {"select", "backoff"}
    /\ svcStopper
    /\ mpc' = "done"
    /\ UNCHANGED <<session, svcStoreVars, mutexes, recs, svcStopper, cpc, ch, oldMutexes,
                   lockCallVars, leaseVars, utilVars>>

\* Service.Close(): the stopper is closed, then wg.Wait()
ServiceClose ==
    /\ Running
    /\ cpc = "open"
    /\ svcStopper' = TRUE
    /\ cpc' = "closing"
    /\ UNCHANGED <<session, svcStoreVars, mutexes, recs, monitorVars, lockCallVars,
                   leaseVars, utilVars>>

\* wg.Wait() returns when the monitor is done: the session, if there is one, is
\* closed (its lease revoked)
ServiceCloseSession ==
    /\ Running
    /\ cpc = "closing"
    /\ mpc = "done"
    /\ IF session # NoSession THEN DropSession(session) ELSE UNCHANGED <<sessions, locks>>
    /\ cpc' = "session"
    /\ UNCHANGED <<session, created, mutexes, recs, svcStopper, monitorVars,
                   lockCallVars, leaseVars, utilVars>>

\* c.etcd.Close(): the client is closed, and Close returns
ServiceCloseReturns ==
    /\ Running
    /\ cpc = "session"
    /\ cpc' = "closed"
    /\ UNCHANGED <<session, svcStoreVars, mutexes, recs, svcStopper, monitorVars,
                   lockCallVars, leaseVars, utilVars>>

\* the Service, its callers and the store, the store reachable
ServiceSteps ==
    \/ \E t \in Callers : \E n \in Names : AcquireLock(t, n)
    \/ \E t \in Callers : AcquireTryLock(t)
    \/ \E t \in Callers : AcquireInsert(t)
    \/ \E t \in Callers : \E n \in Names : ReleaseLock(t, n)
    \/ \E t \in Callers : ReleaseUnlock(t)
    \/ \E t \in Callers : ReleaseFinish(t)
    \/ MonitorSessionDone
    \/ MonitorNotify
    \/ MonitorCreateSession
    \/ MonitorBackoff
    \/ MonitorStop
    \/ ServiceClose
    \/ ServiceCloseSession
    \/ ServiceCloseReturns

ServiceFaults == \E s \in SessionIds : SessionDies(s)

ServiceErrors ==
    \/ \E t \in Callers : AcquireTryLockError(t)
    \/ \E t \in Callers : ReleaseUnlockError(t)
    \/ MonitorCreateFails

ServiceNext == ServiceSteps \/ ServiceFaults \/ ServiceErrors

\* the goroutines of the monitor and of Close are scheduled, the timer fires,
\* createSession returns, the store accepts a new session in the end, and a select
\* with the stopper closed takes that case in the end
ServiceFairness ==
    /\ WF_vars(MonitorSessionDone)
    /\ WF_vars(MonitorNotify)
    /\ WF_vars(MonitorBackoff)
    /\ WF_vars(MonitorCreateSession \/ MonitorCreateFails)
    /\ SF_vars(MonitorCreateSession)
    /\ SF_vars(MonitorStop)
    /\ WF_vars(ServiceCloseSession)
    /\ WF_vars(ServiceCloseReturns)

SpecService == Init /\ [][ServiceNext]_vars /\ ServiceFairness

\* ---- properties

\* the pool-lease of r has member m recorded under a lease the store still grants
HoldsKey(r, k) == wpc[r] # "none" /\ leaseKey[r] = k /\ lease[r] \in leases
Holds(r, m) == HoldsKey(r, Key(r, m))

\* the kinds of the events of r, in order
Kinds(r) == [k \in DOMAIN events[r] |-> events[r][k][1]]

LastKind(r) == IF events[r] = <<>> THEN "none" ELSE events[r][Len(events[r])][1]

\* a keep-alive stream is open on the recorded lease of r
StreamActive(r) == \E i \in DOMAIN cons[r] : cons[r][i].open /\ cons[r][i].lease = lease[r]

\* the supervisor of r is in its loop and believes the lease alive
Held(r) == wpc[r] \notin {"none", "exited"} /\ leaseAlive[r]

\* C1: a member is held by at most one replica's lease: a replica whose recorded
\* lease is still granted has its key attached to exactly that lease, so no two
\* replicas hold the same member at once
PoolExclusive ==
    \A m \in Members :
        /\ \A r \in Replicas : Holds(r, m) => kv[Key(r, m)] = lease[r]
        /\ \A r1, r2 \in Replicas : Holds(r1, m) /\ Holds(r2, m) => r1 = r2

\* a member that one replica held and lost is now held by another replica
PoolExclusiveWitness ==
    \E m \in Members : \E r1, r2 \in Replicas :
        /\ r1 # r2
        /\ Holds(r2, m)
        /\ wpc[r1] # "none" /\ leaseKey[r1] = Key(r1, m) /\ lease[r1] \notin leases

AllReturned == \A r \in Replicas : pc[r] \in {"held", "failed"}

Winners == {r \in Replicas : result[r].err = "nil"}

\* C2: N replicas call Obtain once on a free pool of M < N members and no lease is
\* lost: when all calls have returned, exactly M returned a member, all distinct,
\* and the others returned NoAvailableIDs
RaceOutcome ==
    (NumMembers < NumReplicas /\ AllReturned /\ kills = 0) =>
        /\ Cardinality(Winners) = NumMembers
        /\ \A r \in Winners : result[r].id \in Members
        /\ \A r1, r2 \in Winners : result[r1].id = result[r2].id => r1 = r2
        /\ \A r \in Replicas \ Winners : result[r].err = ErrNoAvailableIDs

RaceOutcomeWitness ==
    /\ NumMembers < NumReplicas /\ AllReturned /\ kills = 0
    /\ \E r \in Replicas : result[r].err = ErrNoAvailableIDs
    /\ \E r \in Replicas : result[r].err = "nil"

\* C3: the step in which Obtain returns a member m has the transaction on m
\* committed under the lease it records, a keep-alive stream open on that lease
\* whose cancel function is the closer, value and leaseKey set to m and its key, and the
\* worker started by this very step
ObtainReturnsCommitted ==
    [][\A r \in Replicas :
          (pc[r] # "held" /\ pc'[r] = "held") =>
              /\ result'[r].err = "nil" /\ result'[r].id \in Members
              /\ value'[r] = result'[r].id
              /\ leaseKey'[r] = Key(r, result'[r].id)
              /\ lease'[r] = granted[r]
              /\ <<Key(r, result'[r].id), lease'[r]>> \in committed'
              /\ \E i \in DOMAIN cons'[r] :
                    /\ cons'[r][i].lease = lease'[r]
                    /\ cons'[r][i].open
                    /\ cons'[r][i].cur
              /\ closer'[r]
              /\ wpc[r] = "none" /\ wpc'[r] = "select"]_vars

ObtainReturnsCommittedWitness ==
    \E r \in Replicas :
        /\ pc[r] = "held" /\ result[r].err = "nil"
        /\ lease[r] = granted[r] /\ kv[Key(r, result[r].id)] = lease[r]
        /\ wpc[r] = "select" /\ StreamActive(r)

\* C4 (as claimed): an Obtain pass that returned NoAvailableIDs has left no lease
\* behind, the lease it granted is revoked
NoLeaseLeftBehind ==
    \A r \in Replicas :
        (pc[r] = "failed" /\ result[r].err = ErrNoAvailableIDs) => granted[r] \notin leases

\* C5: every LeaseReacquired and every LeaseIsTakenOver of a pool-lease comes after
\* a LeaseExpired with no other LeaseReacquired or LeaseIsTakenOver in between
ExpiredPrecedes ==
    \A r \in Replicas : \A k \in DOMAIN events[r] :
        Kinds(r)[k] \in {EventTypeLeaseReacquired, EventTypeLeaseIsTakenOver} =>
            \E j \in 1..(k - 1) :
                /\ Kinds(r)[j] = EventTypeLeaseExpired
                /\ \A i \in (j + 1)..(k - 1) :
                      Kinds(r)[i] \notin {EventTypeLeaseReacquired, EventTypeLeaseIsTakenOver}

ExpiredPrecedesWitness ==
    \E r \in Replicas :
        /\ Kinds(r) = <<EventTypeLeaseExpired, EventTypeLeaseReacquired>>
        /\ Held(r)

\* C6 (as claimed): LeaseIsTakenOver is emitted only when the key is attached to a
\* lease that was granted to another replica
TakenOverByOther ==
    [][\A r \in Replicas :
          (events'[r] # events[r] /\ LastKind(r)' = EventTypeLeaseIsTakenOver) =>
              /\ kv[leaseKey[r]] # NoLease
              /\ kv[leaseKey[r]][1] # r]_vars

\* the last two events of r are first(value) then second(value), value being the
\* member Obtain returned
LastTwo(r, first, second) ==
    /\ Len(events[r]) >= 2
    /\ events[r][Len(events[r]) - 1] = <<first, result[r].id>>
    /\ events[r][Len(events[r])] = <<second, result[r].id>>

\* the key of r is attached to a lease granted to another replica
TakenByOther(r) ==
    leaseKey[r] \in Keys /\ kv[leaseKey[r]] # NoLease /\ kv[leaseKey[r]][1] # r

\* the replicas that hold the member r has recorded, r aside
OtherHolders(r) == {r2 \in Replicas \ {r} : HoldsKey(r2, leaseKey[r])}

\* the worker of r left its loop after LeaseExpired(value), LeaseIsTakenOver(value),
\* and exactly one replica, another one, holds the member
TakenOver(r) ==
    /\ wpc[r] = "exited"
    /\ LastTwo(r, EventTypeLeaseExpired, EventTypeLeaseIsTakenOver)
    /\ ~HoldsKey(r, leaseKey[r])
    /\ Cardinality(OtherHolders(r)) = 1

\* C7: the lease of a running pool-lease is gone and a second replica has acquired
\* its member: the pool-lease emits LeaseExpired then LeaseIsTakenOver, its worker
\* exits, and the second replica is the only holder (unless that replica loses the
\* member again before)
TakeoverObserved ==
    \A r \in Replicas :
        (/\ wpc[r] \notin {"none", "exited"}
         /\ lease[r] \notin leases
         /\ OtherHolders(r) # {})
        ~> (TakenOver(r) \/ OtherHolders(r) = {})

TakeoverObservedWitness == \E r \in Replicas : TakenOver(r)

\* C8: the lease of a held pool-lease is gone and nobody else takes the member: r
\* emits LeaseExpired(value) then LeaseReacquired(value), and then holds the same
\* key under a lease the store grants, with leaseAlive and keepAlive true and a
\* stream open on that lease
Reacquired(r) ==
    /\ Held(r) /\ keepAlive[r]
    /\ LastTwo(r, EventTypeLeaseExpired, EventTypeLeaseReacquired)
    /\ value[r] = result[r].id /\ leaseKey[r] = Key(r, result[r].id)
    /\ lease[r] \in leases /\ kv[leaseKey[r]] = lease[r]
    /\ StreamActive(r)

ReacquireObserved ==
    \A r \in Replicas :
        (Held(r) /\ lease[r] \notin leases) ~> (Reacquired(r) \/ TakenByOther(r))

ReacquireObservedWitness == \E r \in Replicas : Reacquired(r) /\ lease[r] # granted[r]

\* C9: a step that turns keepAlive true while leaseAlive is true happens with the
\* lease still granted and opens a stream on the same lease, grants no lease,
\* commits no transaction and emits no event; and a held pool-lease without an
\* open stream gets one again unless the store drops the lease
ReattachOnly ==
    /\ [][\A r \in Replicas :
             (leaseAlive[r] /\ ~keepAlive[r] /\ keepAlive'[r]) =>
                 /\ lease[r] \in leases
                 /\ lease' = lease /\ leaseAlive' = leaseAlive
                 /\ grants' = grants /\ leases' = leases
                 /\ kv' = kv /\ committed' = committed
                 /\ events' = events
                 /\ StreamActive(r)']_vars
    /\ \A r \in Replicas :
          (Held(r) /\ ~StreamActive(r) /\ lease[r] \in leases)
          ~> ((keepAlive[r] /\ StreamActive(r)) \/ lease[r] \notin leases)

ReattachOnlyWitness ==
    \E r \in Replicas :
        /\ Held(r) /\ keepAlive[r] /\ events[r] = <<>>
        /\ \E i \in DOMAIN cons[r] :
              cons[r][i].by = "worker" /\ cons[r][i].open /\ cons[r][i].lease = granted[r]

\* C10: a held pool-lease without an open stream on its lease gets a stream again
\* or emits LeaseExpired
StreamOrExpired ==
    \A r \in Replicas :
        (Held(r) /\ ~StreamActive(r))
        ~> (StreamActive(r) \/ LastKind(r) = EventTypeLeaseExpired)

StreamOrExpiredWitness ==
    \E r \in Replicas :
        /\ wpc[r] = "regrant" /\ ~StreamActive(r)
        /\ LastKind(r) = EventTypeLeaseExpired

\* the step in which the worker of r leaves its loop and runs the code after it
WorkerExits(r) == wpc[r] # "exited" /\ wpc'[r] = "exited"

\* C11: when the worker leaves its loop, by Close or by LeaseIsTakenOver, no
\* keep-alive stream stays open and the closer is nil afterwards; Revoke is called
\* with the recorded lease when leaseAlive is true and not called when it is false;
\* an exit by LeaseIsTakenOver has leaseAlive false; no other step calls Revoke
RevokeIffLeaseAlive ==
    [][/\ \A r \in Replicas :
             WorkerExits(r) =>
                 /\ ~closer'[r]
                 /\ \A i \in DOMAIN cons'[r] : ~cons'[r][i].open
                 /\ leaseAlive[r] => revokes' = revokes \cup {lease[r]}
                 /\ ~leaseAlive[r] => revokes' = revokes
                 /\ events'[r] # events[r] =>
                        /\ LastKind(r)' = EventTypeLeaseIsTakenOver
                        /\ ~leaseAlive[r]
                        /\ ~stopper[r] \/ wpc[r] = "retxn"
                 /\ events'[r] = events[r] => stopper[r]
       /\ (\A r \in Replicas : ~WorkerExits(r)) => revokes' = revokes]_vars

\* a worker stopped by Close revoked a lease it believed alive, and a worker that
\* was taken over left without a Revoke
RevokeIffLeaseAliveWitness ==
    /\ \E r \in Replicas :
          /\ wpc[r] = "exited" /\ stopper[r] /\ LastKind(r) # EventTypeLeaseIsTakenOver
          /\ lease[r] \in revokes
          /\ \A i \in DOMAIN cons[r] : ~cons[r][i].open
    /\ \E r \in Replicas :
          /\ wpc[r] = "exited" /\ LastKind(r) = EventTypeLeaseIsTakenOver
          /\ lease[r] \notin revokes
\* the Obtain pass of r is at its last member and the transaction finds it taken:
\* Obtain is about to return NoAvailableIDs
PassExhausted(r) ==
    /\ pc[r] = "txn"
    /\ Len(ids[r]) = 1
    /\ TxnOutcome(Key(r, Head(ids[r])), granted[r]) = "taken"

\* C12: Wait returns a member only from an Obtain whose transaction succeeded; an
\* error of Obtain other than NoAvailableIDs is returned at once and unchanged;
\* the error of ctx is returned only while Wait waits; Wait never returns
\* NoAvailableIDs, and it calls Obtain again only from the wait that follows an
\* Obtain that returned NoAvailableIDs
WaitReturns ==
    [][\A r \in Replicas :
          api'[r] = "Wait" =>
              /\ result'[r] # result[r] =>
                    /\ result'[r].err \in {"nil", ErrStore, ErrCanceled}
                    /\ result'[r].err = "nil" =>
                          /\ pc[r] = "txn" /\ pc'[r] = "held"
                          /\ TxnOutcome(Key(r, Head(ids[r])), granted[r]) = "ok"
                          /\ result'[r].id = Head(ids[r])
                    /\ result'[r].err = ErrStore =>
                          pc[r] \in {"idle", "waiting", "txn"} /\ pc'[r] = "failed"
                    /\ result'[r].err = ErrCanceled =>
                          pc[r] = "waiting" /\ pc'[r] = "failed"
              /\ (pc[r] # "waiting" /\ pc'[r] = "waiting") =>
                    PassExhausted(r) /\ result'[r] = result[r]
              /\ PassExhausted(r) => pc'[r] \in {"txn", "waiting", "failed"}
              /\ (PassExhausted(r) /\ pc'[r] = "failed") => result'[r].err = ErrStore
              /\ granted'[r] # granted[r] =>
                    pc[r] \in {"idle", "waiting"} /\ pc'[r] = "txn"]_vars

\* a Wait that found every member taken, waited, called Obtain again and returned
\* a member
WaitReturnsWitness ==
    \E r \in Replicas :
        /\ api[r] = "Wait" /\ pc[r] = "held" /\ result[r].err = "nil"
        /\ grants[r] >= 2 /\ events[r] = <<>>
        /\ kv[Key(r, result[r].id)] = lease[r]
\* some member of the pool has no key in the store
SomeMemberFree == \E r \in Replicas, m \in Members : kv[Key(r, m)] = NoLease

\* C13: Wait of r waits after a pass that found every member taken, and a member's
\* key is deleted (before or after the watch is opened: the timer alone triggers
\* the retry): Wait returns a member, unless the member is taken again or the
\* lease of the new pass is dropped by the store before the transaction
WaitGetsFreedMember ==
    \A r \in Replicas :
        (pc[r] = "waiting" /\ SomeMemberFree /\ grants[r] < MaxGrants)
            ~> \/ /\ pc[r] = "held" /\ result[r].id \in Members
                  /\ kv[Key(r, result[r].id)] = lease[r]
               \/ ~SomeMemberFree
               \/ pc[r] = "txn" /\ granted[r] \notin leases

\* a Wait that waited while the only holder closed its pool-lease holds the member
WaitGetsFreedMemberWitness ==
    \E r, r2 \in Replicas :
        /\ r # r2
        /\ api[r] = "Wait" /\ pc[r] = "held" /\ grants[r] >= 2
        /\ kv[Key(r, result[r].id)] = lease[r]
        /\ pc[r2] \in {"closing", "closed"} /\ result[r2].id = result[r].id
\* the process has panicked
Panicked == ~Running

\* the donec of record i was returned by AcquireLock and the session the lock is
\* bound to is dead
SignalOfDeadSession(i) == i \in DOMAIN recs /\ recs[i].sess \notin sessions

\* the donec of record i is closed
SignalClosed(i) == i \in DOMAIN recs /\ recs[i].closed

\* C14 (as claimed): after the session dies, every donec that AcquireLock returned
\* for a lock of that session is closed in the end, in every interleaving of the
\* monitor with AcquireLock (the Service not closed, the process not panicked)
SignalsClosedAfterSessionDeath ==
    \A i \in 1..MaxRecords :
        SignalOfDeadSession(i) ~> (SignalClosed(i) \/ svcStopper \/ Panicked)

\* the monitor has found the session dead and has no new session yet
Recreating == mpc \in {"notify", "create", "backoff"}

\* the records the registry holds
Registered == {mutexes[n] : n \in Names} \ {NoRecord}

\* C15: after a session loss the monitor retries the creation of a session until
\* the store accepts one or the Service is stopped; the step that creates it leaves
\* Service.session non-nil on a live session whose Done channel the monitor
\* selects on; and the death of the session the monitor watches, the first or a
\* later one, is always followed by the registry being taken and emptied and the
\* donec of every record taken being closed
SessionRecreated ==
    /\ (Recreating /\ created < MaxSessions)
           ~> (session # NoSession \/ svcStopper \/ Panicked)
    /\ [][/\ (mpc = "create" /\ mpc' = "select") =>
               /\ session' = created + 1 /\ session' \in sessions'
               /\ session' \notin sessions
               /\ ch' = session'
          /\ (mpc = "select" /\ mpc' = "notify") =>
               /\ oldMutexes' = Registered
               /\ \A n \in Names : mutexes'[n] = NoRecord
               /\ session' = NoSession
          /\ (mpc = "notify" /\ mpc' = "create") =>
               \A i \in oldMutexes : recs'[i].closed]_vars
    /\ \A s \in SessionIds :
          (mpc = "select" /\ ch = s /\ s \notin sessions)
             ~> (mpc = "create" \/ svcStopper \/ Panicked)

\* the second session was created, AcquireLock succeeded on it, the session died,
\* and the monitor closed the donec of that lock
SessionRecreatedWitness ==
    \E i \in DOMAIN recs :
        /\ recs[i].sess = 2 /\ recs[i].closed
        /\ ret.op = "AcquireLock" /\ ret.err = "nil" /\ ret.rec = i
        /\ mpc \in {"create", "backoff"} /\ session = NoSession
        /\ mutexes[recs[i].name] = NoRecord

\* C16 (as claimed): in every interleaving with the monitor, an AcquireLock that
\* did not return SessionNotAvailable makes its store mutex from a non-nil session:
\* when it reads Service.session after the check the field is not nil, and no nil
\* session is dereferenced
MutexOnCheckedSession ==
    \A t \in Callers :
        /\ tpc[t] = "newmutex" => session # NoSession
        /\ tpc[t] # "panic"
\* C17 (as claimed): AcquireLock succeeds for a name only when the registry has no
\* record under its key, so of two concurrent calls for one name at most one
\* succeeds, no record that is in the registry is replaced by another and no donec
\* is left open outside the registry
LiveRecordNotReplaced ==
    [][\A n \in Names :
          (mutexes[n] # NoRecord /\ mutexes'[n] # mutexes[n]) =>
              mutexes'[n] = NoRecord]_vars
\* C18: a ReleaseLock that returns nil leaves no record under the name; a record
\* appears under a name only by the insert of an AcquireLock; and a ReleaseLock
\* that finds no record, after a release or on a name never acquired, returns nil
\* at once, with no store call and the registry, the records and the store
\* unchanged
ReleaseIdempotent ==
    [][/\ \A t \in Callers :
             /\ (tpc[t] = "finish" /\ tpc'[t] = "idle") =>
                   /\ ret'.by = t /\ ret'.op = "ReleaseLock" /\ ret'.err = "nil"
                   /\ mutexes'[tname[t]] = NoRecord
             /\ (tpc[t] = "idle" /\ tpc'[t] = "unlock") =>
                   mutexes[tname'[t]] # NoRecord
       /\ \A n \in Names :
             (mutexes[n] = NoRecord /\ mutexes'[n] # NoRecord) =>
                 \E t \in Callers :
                     tpc[t] = "insert" /\ tpc'[t] = "idle" /\ tname[t] = n
       /\ (ret' # ret /\ ret'.op = "ReleaseLock" /\ ret'.rec = NoRecord) =>
             /\ ret'.err = "nil"
             /\ tpc[ret'.by] = "idle" /\ tpc' = tpc
             /\ UNCHANGED <<mutexes, recs, locks, sessions, session>>]_vars

\* a lock was acquired and released on a live session, and the last call, a
\* ReleaseLock that found no record, returned nil
ReleaseIdempotentWitness ==
    /\ ret.op = "ReleaseLock" /\ ret.err = "nil" /\ ret.rec = NoRecord
    /\ \E i \in DOMAIN recs :
          /\ recs[i].closed /\ recs[i].sess \in sessions
          /\ mutexes[recs[i].name] = NoRecord
          /\ <<recs[i].name, recs[i].sess>> \notin locks
\* caller t ends a ReleaseLock that read record i at its start
ReleasesRecord(t, i) == tpc[t] = "finish" /\ tpc'[t] = "idle" /\ tmu[t] = i

\* C19 (as claimed): the donec of a record is closed, and the record leaves the
\* registry, only by a ReleaseLock that started on that very record or by the
\* monitor after the death of the session the lock is bound to; a ReleaseLock
\* that started on an older record of the name touches neither
SignalClosedByOwnRelease ==
    [][\A i \in DOMAIN recs :
          /\ (~recs[i].closed /\ recs'[i].closed) =>
                \/ \E t \in Callers : ReleasesRecord(t, i)
                \/ mpc = "notify" /\ i \in oldMutexes /\ recs[i].sess \notin sessions
          /\ (mutexes[recs[i].name] = i /\ mutexes'[recs[i].name] = NoRecord) =>
                \/ \E t \in Callers : ReleasesRecord(t, i)
                \/ mpc = "select" /\ mpc' = "notify" /\ recs[i].sess \notin sessions]_vars
\* C20 (as claimed): when Service.Close has returned, the donec of every record
\* that was in the registry is closed and the registry holds no record
CloseClosesSignals ==
    cpc = "closed" =>
        /\ \A i \in Registered : recs[i].closed
        /\ \A n \in Names : mutexes[n] = NoRecord

SinkFailureContained ==
    [][\A r \in Replicas :
         events'[r] # events[r] =>
           LET kind == events'[r][Len(events'[r])][1] IN
             /\ kind = EventTypeLeaseExpired
                  => (~leaseAlive'[r] /\ wpc'[r] = "regrant")
             /\ kind = EventTypeLeaseReacquired
                  => (leaseAlive'[r] /\ keepAlive'[r] /\ wpc'[r] = "select")
             /\ kind = EventTypeLeaseIsTakenOver
                  => wpc'[r] = "exited"]_vars

\* C23: an Obtain whose Grant or transaction fails with an error of the store
\* returns that error and ends its pass there: no further member is tried, no
\* keepAliveWorker and no worker is started, and value, lease and leaseKey stay
\* as they were
ObtainAbortsOnStoreError ==
    [][\A r \in Replicas :
         (result'[r] # result[r] /\ result'[r].err = ErrStore) =>
           /\ pc'[r] = "failed"
           /\ result'[r].id = 0
           /\ ids'[r] = <<>>
           /\ cons'[r] = cons[r]
           /\ wpc'[r] = wpc[r]
           /\ value'[r] = value[r]
           /\ lease'[r] = lease[r]
           /\ leaseKey'[r] = leaseKey[r]]_vars

\* Obtain returned the store's error from a transaction on a free member: the
\* lease of the pass was granted, nothing was started or recorded
ObtainAbortsOnStoreErrorWitness ==
    \E r \in Replicas :
        /\ pc[r] = "failed"
        /\ result[r].err = ErrStore
        /\ granted[r] \in leases
        /\ \A k \in Keys : kv[k] = NoLease
        /\ wpc[r] = "none"
        /\ cons[r] = <<>>
        /\ value[r] = 0

\* C24: the members of every Range a constructor returns are pairwise distinct,
\* in the hyphen form and in the comma form, a repeated member included
RangeMembersDistinct ==
    (rpc = "done" /\ ~rout.isNil) =>
        \A i, j \in 1..Len(rout.values) : i # j => rout.values[i] # rout.values[j]

\* the integers the hyphen form of NewIDRange is called with
IDBounds ==
    {Int64(FALSE, <<d>>) : d \in 0..2}
        \cup {Int64(FALSE, <<1, 0>>), Int64(FALSE, <<1, 2>>), Int64(FALSE, MaxInt64)}

IDHyphenForm(a, b) == Itoa(a) \o <<"-">> \o Itoa(b)

\* the decimal strings of a, a + 1, ..., b, for a <= b
RECURSIVE IDsFrom(_, _)
IDsFrom(a, b) == IF a = b THEN <<Itoa(a)>> ELSE <<Itoa(a)>> \o IDsFrom(IntInc(a), b)

\* the argument has a hyphen and is not "A-B" with integers A <= B
IDHyphenMalformed ==
    LET s == TrimSpace(rin)
        parts == Split(s, "-")
    IN /\ Contains(s, <<"-">>)
       /\ \/ Len(parts) > 2
          \/ Contains(s, <<",">>)
          \/ ~Atoi(TrimSpace(parts[1])).ok
          \/ ~Atoi(TrimSpace(parts[2])).ok
          \/ IntLess(Atoi(TrimSpace(parts[2])).val, Atoi(TrimSpace(parts[1])).val)

\* C25: NewIDRange of "A-B" with integers A <= B enumerates A, A + 1, ..., B and
\* nothing else, in this order; with A > B, more than one hyphen, a bound that is
\* no number, or commas mixed with a hyphen it fails with ErrInvalidRange and
\* returns no Range
IDHyphenRange ==
    /\ \A a, b \in IDBounds :
         (rfn = "NewIDRange" /\ rin = IDHyphenForm(a, b) /\ IntLe(a, b)) =>
             /\ Len(gvals) <= Len(IDsFrom(a, b))
             /\ rpc = "done" => rout = NewRange(IDsFrom(a, b))
    /\ (rfn = "NewIDRange" /\ rpc = "done" /\ IDHyphenMalformed) =>
           rout = NilRange(ErrInvalidRange)

\* the addresses a, a + 1, ..., b, for a <= b
RECURSIVE IPsFrom(_, _)
IPsFrom(a, b) ==
    IF a = b THEN <<intToIPv4(a)>> ELSE <<intToIPv4(a)>> \o IPsFrom(Inc32(a), b)

\* C26: NewIPRange of "A-B" with IPv4 addresses A <= B terminates with exactly the
\* B - A + 1 addresses from A to B in increasing order, across octet boundaries
\* and up to B = 255.255.255.255
IPHyphenRange ==
    \A p \in IPPairs :
        (/\ rfn = "NewIPRange"
         /\ rin = intToIPv4(p[1]) \o <<"-">> \o intToIPv4(p[2])
         /\ Le32(p[1], p[2])) =>
            /\ Len(gvals) <= Len(IPsFrom(p[1], p[2]))
            /\ gvals = SubSeq(IPsFrom(p[1], p[2]), 1, Len(gvals))
            /\ rpc = "done" => rout = NewRange(IPsFrom(p[1], p[2]))

\* C27: NewIPRange takes IPv6 addresses in the comma form and returns them as
\* they are, in the order of the argument; the hyphen form with a ':' in a bound
\* fails with ErrIPV6RangeNotSupported
IPv6Forms ==
    /\ \A x, y \in {V6Compressed, V6Loopback, V6Trailing} :
         (rfn = "NewIPRange" /\ rin = x \o <<",">> \o y /\ rpc = "done") =>
             rout = NewRange(<<x, y>>)
    /\ (rfn = "NewIPRange" /\ rpc = "done") =>
         LET parts == Split(TrimSpace(rin), "-") IN
           (Len(parts) = 2 /\ (Contains(parts[1], <<":">>) \/ Contains(parts[2], <<":">>)))
               => rout = NilRange(ErrIPV6RangeNotSupported)

\* the store value is of the type of the field: any string, a decimal integer, a
\* boolean literal
Coerces(f, str) ==
    CASE FieldKind(f) = "String" -> TRUE
      [] FieldKind(f) = "Int" -> Atoi(TrimSpace(str)).ok
      [] FieldKind(f) = "Bool" -> ParseBool(str).ok
      [] OTHER -> FALSE

\* C28: loadConfig changes a field only if the store has a value under its key and
\* the value is of the type of the field; without Get failing it returns nil, and
\* the error of Get otherwise
ConfigFieldsCoerced ==
    /\ \A f \in CfgFields :
         cfg[f] # CfgDefaults[f] => (cstore[f].found /\ Coerces(f, cstore[f].value))
    /\ cfpc = "done" => cret \in {"nil", ErrStore}
    /\ (cfpc = "done" /\ cpend = {}) => cret = "nil"

\* reacquire of r returns reacquireFailure in this step: it ends without a new
\* keepAliveWorker and not on a key it found taken
ReacquireFails(r) ==
    /\ wpc[r] \in {"regrant", "retxn"}
    /\ wpc'[r] \notin {"regrant", "retxn"}
    /\ cons'[r] = cons[r]
    /\ ~(wpc[r] = "retxn" /\ TxnOutcome(leaseKey[r], regranted[r]) = "taken")

\* the worker of r is in its loop after a reacquire that failed
AfterReacquireFailure(r) == wpc[r] = "select" /\ ~leaseAlive[r] /\ ~keepAlive[r]

\* C29: a reacquire that ends in reacquireFailure (Grant fails, the transaction
\* fails, or KeepAlive fails after the transaction) emits no event, leaves i.lease,
\* leaseAlive (false) and keepAlive (false) as they are and the worker in its loop,
\* and the next tick enters reacquire again unless the worker is stopped
ReacquireFailureRetries ==
    /\ [][\A r \in Replicas :
            /\ ReacquireFails(r) =>
                  /\ wpc'[r] = "select"
                  /\ events'[r] = events[r]
                  /\ lease'[r] = lease[r]
                  /\ ~leaseAlive[r] /\ ~leaseAlive'[r]
                  /\ ~keepAlive[r] /\ ~keepAlive'[r]
            /\ (AfterReacquireFailure(r) /\ wpc'[r] # "select") =>
                  \/ wpc'[r] = "retxn" /\ regranted'[r] # regranted[r]
                  \/ wpc'[r] = "exited" /\ stopper[r]]_vars
    /\ \A r \in Replicas :
          AfterReacquireFailure(r) ~>
              (wpc[r] \in {"retxn", "exited"} \/ grants[r] = MaxGrants)

\* the second attempt of reacquire, after one that failed with its lease granted
ReacquireFailureRetriesWitness ==
    \E r \in Replicas :
        /\ wpc[r] = "retxn"
        /\ lease[r] = <<r, 1>>
        /\ regranted[r] = <<r, 3>>
        /\ ~leaseAlive[r]
        /\ LastKind(r) = EventTypeLeaseExpired

\* the step closes the donec of a record or takes a record out of the registry
ClosesOrRemoves ==
    \/ \E i \in DOMAIN recs : ~recs[i].closed /\ recs'[i].closed
    \/ \E n \in Names : mutexes[n] # NoRecord /\ mutexes'[n] = NoRecord

\* C30: a ReleaseLock whose Unlock fails returns the error (ErrEtcdTimeout for a
\* deadline, the store's error otherwise) with the registry and every donec as
\* they were; ReleaseLock closes a donec and deletes a record only in its last
\* critical section, which it reaches only after Unlock deleted the key
UnlockFailureKeepsRecord ==
    [][\A t \in Callers :
         /\ (tpc[t] = "unlock" /\ tpc'[t] = "idle") =>
               /\ ret' = LockResult(t, "ReleaseLock", ret'.err, tmu[t])
               /\ ret'.err \in {ErrEtcdTimeout, ErrStore}
               /\ mutexes' = mutexes
               /\ recs' = recs
         /\ (tpc[t] \in {"idle", "unlock"} /\ tpc'[t] # tpc[t]) => ~ClosesOrRemoves
         /\ (tpc[t] # "finish" /\ tpc'[t] = "finish") =>
               /\ tpc[t] = "unlock"
               /\ <<recs[tmu[t]].name, recs[tmu[t]].sess>> \notin locks']_vars

\* ReleaseLock returned ErrEtcdTimeout: the record is in the registry, its donec
\* open, and the key still locked in the store
UnlockFailureKeepsRecordWitness ==
    /\ ret.op = "ReleaseLock"
    /\ ret.err = ErrEtcdTimeout
    /\ ret.rec # NoRecord
    /\ mutexes[recs[ret.rec].name] = ret.rec
    /\ ~recs[ret.rec].closed
    /\ <<recs[ret.rec].name, recs[ret.rec].sess>> \in locks

\* the name Hostname() answers on the host of replica r
HostnameOf(r) == Hostname(oshost[r])

\* the transaction of the Obtain pass of r finds the key taken by a lease of r2
FindsTakenBy(r, r2) ==
    /\ pc[r] = "txn"
    /\ TxnOutcome(Key(r, Head(ids[r])), granted[r]) = "taken"
    /\ kv[Key(r, Head(ids[r]))][1] = r2

\* the Obtain passes of r1 and r2 are about to commit a transaction on one key
RaceOnKey(r1, r2) ==
    /\ pc[r1] = "txn" /\ pc[r2] = "txn"
    /\ Key(r1, Head(ids[r1])) = Key(r2, Head(ids[r2]))

\* C31 (as claimed): replicas on the same host never hold the same IPv4 member
\* together, replicas on hosts with different names use different keys and never
\* find a key taken by each other, and a member of an ID pool is held by one
\* replica whatever the hosts
PrefixScopesByHost ==
    \A r1, r2 \in Replicas : \A m \in Members :
        r1 # r2 =>
            /\ (rtype = RangeTypeID \/ oshost[r1] = oshost[r2]) =>
                  ~(Holds(r1, m) /\ Holds(r2, m))
            /\ (rtype = RangeTypeIP /\ oshost[r1] # oshost[r2]) =>
                  ~RaceOnKey(r1, r2) /\ ~FindsTakenBy(r1, r2)

\* C31 (amended): the same with the hostnames compared as Hostname() returns
\* them, after the replacement of the characters - . * >
PrefixScopesPool ==
    \A r1, r2 \in Replicas : \A m \in Members :
        r1 # r2 =>
            /\ (rtype = RangeTypeID \/ HostnameOf(r1) = HostnameOf(r2)) =>
                  ~(Holds(r1, m) /\ Holds(r2, m))
            /\ (rtype = RangeTypeIP /\ HostnameOf(r1) # HostnameOf(r2)) =>
                  ~RaceOnKey(r1, r2) /\ ~FindsTakenBy(r1, r2)

\* two replicas under different hostnames hold the same IPv4 member at once
PrefixScopesPoolWitness ==
    \E r1, r2 \in Replicas : \E m \in Members :
        /\ rtype = RangeTypeIP
        /\ HostnameOf(r1) # HostnameOf(r2)
        /\ Holds(r1, m) /\ Holds(r2, m)
        /\ kv[Key(r1, m)] = lease[r1] /\ kv[Key(r2, m)] = lease[r2]
        /\ value[r1] = value[r2]

\* the worker of r is gone, or was never started
WorkerGone(r) == wpc[r] \in {"none", "exited"}

\* C32: once the stopper of a pool-lease is closed its worker exits and Close
\* returns, whatever the worker was doing (healthy, keep-alive lost, retrying
\* reacquire, exited after LeaseIsTakenOver, never started), with store calls that
\* answer or fail
CloseTerminates ==
    \A r \in Replicas : stopper[r] ~> (pc[r] = "closed" /\ WorkerGone(r))

\* Close has returned on a pool-lease that was closed while its worker was
\* retrying reacquire after LeaseExpired
CloseTerminatesWitness ==
    \E r \in Replicas :
        /\ pc[r] = "closed" /\ wpc[r] = "exited"
        /\ ~leaseAlive[r] /\ ~keepAlive[r]
        /\ LastKind(r) = EventTypeLeaseExpired

\* s is one octet in decimal: one to three digits, no leading zero, at most 255
DecimalOctet(s) ==
    /\ Len(s) \in 1..3
    /\ \A i \in 1..Len(s) : IsDigit(s[i])
    /\ Len(s) > 1 => s[1] # "0"
    /\ Len(s) = 3 =>
          100 * DigitVal(s[1]) + 10 * DigitVal(s[2]) + DigitVal(s[3]) <= 255

\* s is an IPv4 address in dotted-quad notation
DottedQuad(s) ==
    \E a, b, c, d \in OctetStrs \cup OddOctetStrs :
        /\ s = Dotted(a, b, c, d)
        /\ DecimalOctet(a) /\ DecimalOctet(b) /\ DecimalOctet(c) /\ DecimalOctet(d)

\* C33: an IPv4 address in dotted-quad notation, from 0.0.0.0 to
\* 255.255.255.255, converted by ipv4ToInt and back by intToIPv4 is the same
\* string
IPv4RoundTrip ==
    (rfn = "ipv4ToInt" /\ DottedQuad(rin)) =>
        /\ rpc = "done" => rout = NewRange(<<rin>>)
        /\ rpc = "int" => intToIPv4(gi) = rin

\* the greatest address, and one with octets of one, two and three digits, came back
IPv4RoundTripWitness ==
    /\ rfn = "ipv4ToInt" /\ rpc = "done"
    /\ rin \in {Dotted(<<"2", "5", "5">>, <<"2", "5", "5">>, <<"2", "5", "5">>,
                         <<"2", "5", "5">>),
                  Dotted(<<"1", "0">>, <<"0">>, <<"9", "9">>, <<"1", "0", "0">>)}
    /\ rout = NewRange(<<rin>>)

\* C34: a pool-lease has at most one keepAliveWorker at any time; a stream is
\* opened only when no consumer is left and the breaker is empty, so the signal
\* of the consumer before it has been received; and the worker never receives a
\* signal while keepAlive is false
OneConsumerNoStaleSignal ==
    [][\A r \in Replicas :
          /\ Len(cons'[r]) <= 1
          /\ Len(cons'[r]) > Len(cons[r]) => (cons[r] = <<>> /\ ~breaker[r])
          /\ (breaker[r] /\ ~breaker'[r]) => keepAlive[r]]_vars

\* the worker has received the signal of the first consumer and a second stream,
\* opened by the worker or by reacquire, is the only one
OneConsumerNoStaleSignalWitness ==
    \E r \in Replicas :
        /\ Len(cons[r]) = 1
        /\ cons[r][1].by \in {"worker", "reacquire"}
        /\ cons[r][1].open /\ cons[r][1].cur
        /\ keepAlive[r] /\ ~breaker[r]

\* C35 (as claimed): when Obtain has returned an error (NoAvailableIDs, an error
\* of the store, a KeepAlive that failed after the transaction succeeded), no key
\* of the store is attached to the lease the pass was granted
ObtainErrorLeavesNoKey ==
    \A r \in Replicas :
        (pc[r] = "failed" /\ result[r].err \in {ErrNoAvailableIDs, ErrStore}) =>
            \A k \in Keys : kv[k] = NoLease \/ kv[k] # granted[r]

\* a goroutine has closed a donec that was closed already
ClosedTwice(tp, mp) == mp = "closepanic" \/ \E t \in Callers : tp[t] = "closepanic"

\* record i leaves the registry in this step, by the delete of ReleaseLock
DeletedNow(i) == mutexes[recs[i].name] = i /\ mutexes'[recs[i].name] = NoRecord

\* C36: no donec is closed twice, with ReleaseLock calls of the same name, the
\* sweep of the monitor and AcquireLock interleaved: a donec is closed by the
\* ReleaseLock that deletes its record in the same step under the lock, or by the
\* monitor for a record it took out of the registry, and stays closed
SignalClosedOnce ==
    [][/\ ~ClosedTwice(tpc', mpc')
       /\ \A i \in DOMAIN recs :
             /\ recs[i].closed => recs'[i].closed
             /\ (~recs[i].closed /\ recs'[i].closed) =>
                   \/ DeletedNow(i) /\ \E t \in Callers : tpc[t] = "finish"
                   \/ mpc = "notify" /\ i \in oldMutexes
                          /\ mutexes[recs[i].name] # i]_vars

\* a ReleaseLock that unlocked record i is about to look at the registry again,
\* after the monitor took the record out and closed its donec
SignalClosedOnceWitness ==
    \E t \in Callers :
        /\ tpc[t] = "finish"
        /\ recs[tmu[t]].closed
        /\ mutexes[tname[t]] = NoRecord
        /\ mpc \in {"create", "backoff", "select"}
        /\ session \notin {NoSession, recs[tmu[t]].sess}

\* the kinds k have the shape (LeaseExpired LeaseReacquired)* LeaseExpired?
\* LeaseIsTakenOver?
EventShape(k) ==
    \A i \in DOMAIN k :
        /\ k[i] = EventTypeLeaseExpired =>
              (i = 1 \/ k[i - 1] = EventTypeLeaseReacquired)
        /\ k[i] = EventTypeLeaseReacquired =>
              (i > 1 /\ k[i - 1] = EventTypeLeaseExpired)
        /\ k[i] = EventTypeLeaseIsTakenOver => i = Len(k)

\* C37: the events of a pool-lease, in order, are (LeaseExpired LeaseReacquired)*,
\* then at most one LeaseExpired, then at most one LeaseIsTakenOver; nothing is
\* emitted after LeaseIsTakenOver or after Close has returned
EventTraceShape ==
    [][\A r \in Replicas :
          /\ EventShape(Kinds(r)')
          /\ events'[r] # events[r] =>
                /\ SubSeq(events'[r], 1, Len(events[r])) = events[r]
                /\ pc[r] # "closed"
                /\ LastKind(r) # EventTypeLeaseIsTakenOver]_vars

\* LeaseExpired once, then two attempts of reacquire of which the second
\* succeeded: LeaseReacquired
EventTraceShapeWitness ==
    \E r \in Replicas :
        /\ Kinds(r) = <<EventTypeLeaseExpired, EventTypeLeaseReacquired>>
        /\ grants[r] = 3 /\ lease[r] = <<r, 3>>
        /\ leaseAlive[r] /\ keepAlive[r]

\* the replica whose Grant created lease l
GrantedTo(l) == l[1]

\* C38: the exit of the worker of r, by Close or by LeaseIsTakenOver, leaves every
\* key that is bound to a lease of another replica as it is; a key loses its binding
\* only when the store drops a lease by itself or in the exit of a worker that
\* revokes its own recorded lease, to which the key was bound
ExitRevokesOwnLeaseOnly ==
    [][\A k \in Keys :
          /\ \A r \in Replicas :
                (WorkerExits(r) /\ kv[k] # NoLease /\ GrantedTo(kv[k]) # r) =>
                    kv'[k] = kv[k]
          /\ (kv[k] # NoLease /\ kv'[k] # kv[k] /\ kills' = kills) =>
                \E r \in Replicas :
                    /\ WorkerExits(r)
                    /\ kv[k] = lease[r] /\ GrantedTo(lease[r]) = r
                    /\ lease[r] \in revokes' /\ kv'[k] = NoLease]_vars

\* the worker of r1 left by LeaseIsTakenOver and the key it had recorded is bound
\* to the live lease of r2, which the exit of r1 left in place
ExitRevokesOwnLeaseOnlyWitness ==
    \E r1, r2 \in Replicas :
        /\ r1 # r2
        /\ wpc[r1] = "exited" /\ LastKind(r1) = EventTypeLeaseIsTakenOver
        /\ leaseKey[r2] = leaseKey[r1]
        /\ kv[leaseKey[r1]] = lease[r2] /\ lease[r2] \in leases

\* the records the registry holds that were created under another session than
\* the one the Service has now
StaleRecords ==
    {n \in Names : mutexes[n] # NoRecord /\ recs[mutexes[n]].sess # session}

\* C39 (as claimed): once the monitor has handled a session loss and a new session
\* exists, the registry holds no record created under the dead session, so no name
\* is refused with ErrMutexAlreadyAcquired for a record of a dead session
NoRecordOfDeadSession ==
    (Running /\ session # NoSession /\ mpc = "select") => StaleRecords = {}

\* Close has returned on the pool-lease of r, which had obtained a member
ClosedAfterHolding(r) == pc[r] = "closed" /\ leaseKey[r] \in Keys

\* the key r recorded is not bound to a lease of r: it is free or another replica
\* has put it
KeyGivenUp(r) ==
    /\ leaseKey[r] \in Keys
    /\ kv[leaseKey[r]] = NoLease \/ GrantedTo(kv[leaseKey[r]]) # r

\* C40: after Close has returned on a pool-lease that held a member, the key of that
\* member eventually leaves the store, by the Revoke or by the TTL of a lease no
\* stream of this pool-lease keeps alive, and is free for another replica
ClosedKeyDisappears ==
    \A r \in Replicas : ClosedAfterHolding(r) ~> KeyGivenUp(r)

\* Close returned on r1 after its Revoke, and r2 holds the member r1 had
ClosedKeyDisappearsWitness ==
    \E r1, r2 \in Replicas :
        /\ r1 # r2
        /\ ClosedAfterHolding(r1) /\ lease[r1] \in revokes
        /\ leaseKey[r2] = leaseKey[r1] /\ pc[r2] = "held"
        /\ kv[leaseKey[r1]] = lease[r2] /\ lease[r2] \in leases
====
